---- MODULE Spec2Model ----
(***************************************************************************)
(* Model of the questionnaire compiler and of the interview interpreter    *)
(* of metaspex/interviews (src/server/ontology.cpp, payloads.cpp,          *)
(* services.cpp and include/interviews/ontology.hpp).                      *)
(*                                                                         *)
(* Questions are designated by their 1-based position in the questionnaire *)
(* (the label of question k is k); 0 stands for a null reference.          *)
(***************************************************************************)
EXTENDS Integers, Sequences, FiniteSets, TLC

(***************************************************************************)
(* Bounds of the exploration.                                              *)
(***************************************************************************)
\* Last instant of the clock.
MaxTime == 3
\* submit is explored while the history is shorter than this.
MaxHistory == 7

(***************************************************************************)
(* Expressions run by the expression host.  A snippet is either empty or   *)
(* the test "the answer to question p is present and its choice index is   *)
(* v" (for instance q1 && q1.choice.index == 0).                           *)
(***************************************************************************)
NoExpr == [p |-> 0, v |-> 0]

Test(p, v) == [p |-> p, v |-> v]

\* function::empty
empty(f) == f.p = 0

(***************************************************************************)
(* Answers.  An answer holds its question and its body: a choice index     *)
(* and the value the loop operand expression extracts from the answer      *)
(* (arr: it is an array; elems: its elements, 0 standing for null; a value  *)
(* that is not an array but can be indexed, a string, has elements too).   *)
(***************************************************************************)
NoAnswer == [q |-> 0, c |-> 0, arr |-> FALSE, elems |-> <<>>, pos |-> 0]

Payload(c, arr, elems) == [c |-> c, arr |-> arr, elems |-> elems]

NoPayload == [c |-> -2, arr |-> FALSE, elems |-> <<>>]

\* answer_payload::make_answer: the answer built from a payload for a question.
\* pos is the identity of the answer: the position of its entry in the history.
make_answer(q, p, pos) ==
  [q |-> q, c |-> p.c, arr |-> p.arr, elems |-> p.elems, pos |-> pos]

(***************************************************************************)
(* Source questionnaires.                                                  *)
(***************************************************************************)
\* source_transition
ST(condition, code, destination) ==
  [condition |-> condition, code |-> code, destination |-> destination,
   parameters |-> IF ~empty(condition) THEN <<condition.p>>
                  ELSE IF ~empty(code) THEN <<code.p>> ELSE <<>>]

\* Catch-all source transition.
STo(destination) == ST(NoExpr, NoExpr, destination)

\* source_question and its subtypes.  text is the list of the parameter
\* lists of the text functions of the question.
SQ(type, transitions, question, text) ==
  [type |-> type, transitions |-> transitions, question |-> question, text |-> text]

SMessage(transitions) == SQ("message", transitions, 0, <<>>)

SMessageT(transitions, text) == SQ("message", transitions, 0, text)

SInput(transitions) == SQ("input", transitions, 0, <<>>)

SSelect(transitions) == SQ("select", transitions, 0, <<>>)

STemplate(transitions) == SQ("from_template", transitions, 0, <<>>)

SBeginLoop(question, transitions) == SQ("begin_loop", transitions, question, <<>>)

SEndLoop(transitions) == SQ("end_loop", transitions, 0, <<>>)

(***************************************************************************)
(* The template library holds one template question, whose body is an      *)
(* input, localized in the languages of TemplateLanguages.                 *)
(***************************************************************************)
TemplateBody == "input"

Languages == {1, 2}

\* Languages a questionnaire localization was uploaded for.
LocalizedLanguages == {1}

TemplateLanguages == {1}

(***************************************************************************)
(* Compiled questions.                                                     *)
(***************************************************************************)
\* question::get_loop_type
get_loop_type(q) ==
  IF q.type = "begin_loop" THEN "begin_loop"
  ELSE IF q.type = "end_loop" THEN "end_loop" ELSE "regular"

\* question::supports_localization, overridden by question_with_body only.
supports_localization(q) == q.type = "with_body"

\* question::supports_answer
supports_answer(q) == q.type \notin {"begin_loop", "end_loop"}

\* question::can_be_final and its overrides.
can_be_final(q) ==
  /\ q.type \in {"with_body", "from_template"}
  /\ q.body = "message"

\* question::is_final
is_final(q) == Len(q.transitions) = 0 /\ can_be_final(q)

\* The question created by source_question::compile (first pass), without
\* its transitions and text functions.
make_question(sq) ==
  [type |-> IF sq.type \in {"message", "input", "select"} THEN "with_body" ELSE sq.type,
   body |-> IF sq.type \in {"message", "input", "select"} THEN sq.type
            ELSE IF sq.type = "from_template" THEN TemplateBody ELSE "none",
   transitions |-> <<>>,
   operand_question |-> sq.question,
   text_functions |-> <<>>]

question_info_mut(nest, mbl) == [nest |-> <<>>, mbl |-> mbl]

\* question_info
question_info(nest, mbl) == [nest |-> nest, mbl |-> mbl]

\* question_info::get_parent_begin_loop
get_parent_begin_loop(qi) == IF qi.nest = <<>> THEN 0 ELSE qi.nest[Len(qi.nest)]

Front(s) == SubSeq(s, 1, Len(s) - 1)

\* First pass of source_questionnaire::compile: creation of the questions and
\* calculation of the loop nests.
RECURSIVE FirstPass(_, _, _, _)
FirstPass(src, i, ln, infos) ==
  IF i > Len(src)
  THEN IF ln # <<>> THEN [err |-> "question_loop_is_not_closed", infos |-> infos]
       ELSE [err |-> "ok", infos |-> infos]
  ELSE LET sq == src[i] IN
    IF sq.type = "begin_loop" /\ sq.question \notin 1..(i - 1)
    THEN [err |-> "question_begin_loop_refers_to_unknown_question", infos |-> infos]
    ELSE IF sq.type = "begin_loop" /\ ~supports_answer(make_question(src[sq.question]))
    THEN [err |-> "question_begin_loop_refers_to_unanswerable_question", infos |-> infos]
    ELSE IF ln = <<>>
    THEN IF sq.type = "end_loop"
         THEN [err |-> "question_loop_is_not_balanced", infos |-> infos]
         ELSE FirstPass(src, i + 1,
                        IF sq.type = "begin_loop" THEN <<i>> ELSE <<>>,
                        Append(infos, question_info(<<>>, 0)))
    ELSE IF sq.type = "end_loop"
    THEN FirstPass(src, i + 1, Front(ln),
                   Append(infos, question_info(Front(ln), ln[Len(ln)])))
    ELSE FirstPass(src, i + 1,
                   IF sq.type = "begin_loop" THEN Append(ln, i) ELSE ln,
                   Append(infos, question_info(ln, 0)))

OperandCheck_mut(src, infos) == "ok"

\* Check of the loop nest of the operand of the begin loops.
OperandCheck(src, infos) ==
  IF \E i \in 1..Len(src) :
       /\ src[i].type = "begin_loop"
       /\ infos[i].nest # infos[src[i].question].nest
  THEN "question_begin_loop_refers_to_question_with_different_loop_nest"
  ELSE "ok"

TransitionError_mut(src, infos, i, k) ==
  LET sq == src[i]
      t == sq.transitions[k]
      d == t.destination
  IN
  IF k # Len(sq.transitions) /\ empty(t.condition) /\ empty(t.code)
  THEN "source_question_transition_catch_all_is_not_last"
  ELSE IF d \notin 1..Len(src) THEN "source_question_transition_does_not_exist"
  ELSE IF i = d THEN "source_question_transitions_to_itself"
  ELSE IF i > d THEN "source_question_transitions_to_previous_question"
  ELSE IF sq.type = "begin_loop" /\ src[d].type = "begin_loop"
  THEN "source_question_begin_loop_transitions_to_begin_loop"
  ELSE IF sq.type = "begin_loop" /\ src[d].type = "end_loop" /\ infos[d].mbl # i
  THEN "source_question_transitions_across_loop"
  ELSE IF /\ sq.type = "begin_loop"
          /\ src[d].type \notin {"begin_loop", "end_loop"}
          /\ get_parent_begin_loop(infos[d]) # i
  THEN "source_question_transitions_across_loop"
  ELSE IF ~empty(t.condition) /\ ~empty(t.code)
  THEN "transition_has_both_condition_and_code"
  ELSE IF \E j \in 1..Len(t.parameters) : t.parameters[j] \notin 1..Len(src)
  THEN "source_question_argument_does_not_exist"
  ELSE "ok"

\* The checks source_question::compile_transitions makes on transition k of
\* question i, in the order of the code.
TransitionError(src, infos, i, k) ==
  LET sq == src[i]
      t == sq.transitions[k]
      d == t.destination
      qpbl == get_parent_begin_loop(infos[i])
  IN
  IF k # Len(sq.transitions) /\ empty(t.condition) /\ empty(t.code)
  THEN "source_question_transition_catch_all_is_not_last"
  ELSE IF d \notin 1..Len(src) THEN "source_question_transition_does_not_exist"
  ELSE IF i = d THEN "source_question_transitions_to_itself"
  ELSE IF i > d THEN "source_question_transitions_to_previous_question"
  ELSE IF /\ sq.type # "begin_loop"
          /\ \/ qpbl # get_parent_begin_loop(infos[d])
             \/ (src[d].type = "end_loop" /\ qpbl # infos[d].mbl)
  THEN "source_question_transitions_across_loop"
  ELSE IF sq.type = "begin_loop" /\ src[d].type = "begin_loop"
  THEN "source_question_begin_loop_transitions_to_begin_loop"
  ELSE IF sq.type = "begin_loop" /\ src[d].type = "end_loop" /\ infos[d].mbl # i
  THEN "source_question_transitions_across_loop"
  ELSE IF /\ sq.type = "begin_loop"
          /\ src[d].type \notin {"begin_loop", "end_loop"}
          /\ get_parent_begin_loop(infos[d]) # i
  THEN "source_question_transitions_across_loop"
  ELSE IF ~empty(t.condition) /\ ~empty(t.code)
  THEN "transition_has_both_condition_and_code"
  ELSE IF \E j \in 1..Len(t.parameters) : t.parameters[j] \notin 1..Len(src)
  THEN "source_question_argument_does_not_exist"
  ELSE "ok"

\* The transition built from a source transition: the function holds the
\* condition if there is one, the code otherwise.
make_transition(t) ==
  [condition |-> IF ~empty(t.condition) THEN t.condition ELSE t.code,
   parameters |-> t.parameters,
   destination |-> t.destination]

\* source_question::compile_transitions
compile_transitions(src, infos, i, ub) ==
  LET sq == src[i]
      n == Len(sq.transitions)
      bad == {k \in 1..n : TransitionError(src, infos, i, k) # "ok"}
      first == CHOOSE k \in bad : \A j \in bad : k <= j
  IN
  IF n = 0
  THEN IF can_be_final(make_question(sq)) THEN [err |-> "ok", transitions |-> <<>>]
       ELSE IF i = Len(src)
       \* The test on the end iterator is made before the increment: the code
       \* dereferences the end of the list, and the transition it builds, if
       \* any, leads to what lies past the last question.
       THEN IF ub = "abort" THEN [err |-> "undefined", transitions |-> <<>>]
            ELSE [err |-> "ok",
                  transitions |-> <<[condition |-> NoExpr, parameters |-> <<>>,
                                     destination |-> i + 1]>>]
       ELSE [err |-> "ok",
             transitions |-> <<[condition |-> NoExpr, parameters |-> <<>>,
                                destination |-> i + 1]>>]
  ELSE IF ~empty(sq.transitions[n].condition)
  THEN [err |-> "source_question_transitions_lack_catch_all", transitions |-> <<>>]
  ELSE IF bad # {}
  THEN [err |-> TransitionError(src, infos, i, first), transitions |-> <<>>]
  ELSE [err |-> "ok",
        transitions |-> [k \in 1..n |-> make_transition(sq.transitions[k])]]

FunctionError_mut(src, infos, i, params) ==
  LET ParameterError(par) ==
        IF par \notin 1..Len(src) THEN "function_parameter_does_not_exist"
        ELSE IF i = par THEN "function_parameter_refers_to_self"
        ELSE IF i < par THEN "function_parameter_refers_to_subsequent_question"
        ELSE "ok"
      bad == {j \in 1..Len(params) : ParameterError(params[j]) # "ok"}
  IN IF bad = {} THEN "ok"
     ELSE ParameterError(params[CHOOSE j \in bad : \A k \in bad : j <= k])

\* source_function::compile, for the text functions of question i.
FunctionError(src, infos, i, params) ==
  LET ParameterError(par) ==
        IF par \notin 1..Len(src) THEN "function_parameter_does_not_exist"
        ELSE IF i = par THEN "function_parameter_refers_to_self"
        ELSE IF i < par THEN "function_parameter_refers_to_subsequent_question"
        ELSE IF infos[i].nest # infos[par].nest
        THEN "function_parameter_refers_to_question_with_different_loop_nest"
        ELSE "ok"
      bad == {j \in 1..Len(params) : ParameterError(params[j]) # "ok"}
  IN IF bad = {} THEN "ok"
     ELSE ParameterError(params[CHOOSE j \in bad : \A k \in bad : j <= k])

\* source_question_inline::compile_more
compile_more(src, infos, i) ==
  LET bad == {k \in 1..Len(src[i].text) :
                FunctionError(src, infos, i, src[i].text[k]) # "ok"}
      first == CHOOSE k \in bad : \A j \in bad : k <= j
  IN IF bad = {} THEN "ok" ELSE FunctionError(src, infos, i, src[i].text[first])

\* Second pass of source_questionnaire::compile.
RECURSIVE SecondPass(_, _, _, _, _)
SecondPass(src, infos, i, qs, ub) ==
  IF i > Len(src) THEN [err |-> "ok", questions |-> qs]
  ELSE LET r == compile_transitions(src, infos, i, ub)
           m == compile_more(src, infos, i)
       IN IF r.err # "ok" THEN [err |-> r.err, questions |-> <<>>]
          ELSE IF m # "ok" THEN [err |-> m, questions |-> <<>>]
          ELSE SecondPass(src, infos, i + 1,
                 Append(qs, [make_question(src[i]) EXCEPT
                               !.transitions = r.transitions,
                               !.text_functions = src[i].text]), ub)

\* source_questionnaire::compile
compile(src, ub) ==
  IF src = <<>> THEN [err |-> "source_questionnaire_has_no_questions", questions |-> <<>>, infos |-> <<>>]
  ELSE LET a == FirstPass(src, 1, <<>>, <<>>) IN
    IF a.err # "ok" THEN [err |-> a.err, questions |-> <<>>, infos |-> <<>>]
    ELSE IF OperandCheck(src, a.infos) # "ok"
    THEN [err |-> OperandCheck(src, a.infos), questions |-> <<>>, infos |-> <<>>]
    ELSE LET b == SecondPass(src, a.infos, 1, <<>>, ub) IN
      [err |-> b.err, questions |-> b.questions, infos |-> a.infos]

check_orphans_mut(qs) ==
  LET dests(i) == {qs[i].transitions[k].destination : k \in 1..Len(qs[i].transitions)}
      orphans == {i \in 2..Len(qs) : \A j \in 1..(i - 1) : i \notin dests(j)}
  IN IF orphans = {} THEN 0 ELSE CHOOSE i \in orphans : \A j \in orphans : i >= j

\* questionnaire::check_orphans: the label of the first orphan, 0 if none.
check_orphans(qs) ==
  LET dests(i) == {qs[i].transitions[k].destination : k \in 1..Len(qs[i].transitions)}
      orphans == {i \in 2..Len(qs) : \A j \in 1..(i - 1) : i \notin dests(j)}
  IN IF orphans = {} THEN 0 ELSE CHOOSE i \in orphans : \A j \in orphans : i <= j

(***************************************************************************)
(* The stack (the_stack, the_stack_frame).  A map of answers by question   *)
(* is a set of answers holding at most one answer per question.            *)
(***************************************************************************)
\* The element of a set of one element.  In The({f(x) : x \in {e}}) the
\* value of e is computed once and x names it in f(x), as a local variable
\* of the code holds the result of a call.
The(S) == CHOOSE x \in S : TRUE

EmptyStack == [vector |-> <<>>, answers |-> {}]

MapReplace(m, a) == {x \in m : x.q # a.q} \cup {a}

MapFind(m, q) == IF \E x \in m : x.q = q THEN CHOOSE x \in m : x.q = q ELSE NoAnswer

\* compute_loop_operand: the value of the operand expression on the answer;
\* the size of a value that is not an array is 0 (the_stack_frame ctor).
loop_operand_size(loa) == IF loa.arr THEN Len(loa.elems) ELSE 0

\* the_stack_frame::calculate_loop_variable_value: element index of the
\* operand, null (0) when it is undefined.
calculate_loop_variable_value(loa, index) ==
  IF index < Len(loa.elems) THEN loa.elems[index + 1] ELSE 0

\* the_stack_frame::the_stack_frame
the_stack_frame(qbl, loa) ==
  [question_begin_loop |-> qbl,
   loop_operand_answer |-> loa,
   loop_operand_size |-> loop_operand_size(loa),
   index |-> 0,
   answers |-> {}]

Top(ts) == ts.vector[Len(ts.vector)]

\* the_stack::replace_answer
replace_answer(ts, a) ==
  IF ts.vector = <<>>
  THEN [ts EXCEPT !.answers = MapReplace(ts.answers, a)]
  ELSE [ts EXCEPT !.vector[Len(ts.vector)].answers =
                     MapReplace(ts.vector[Len(ts.vector)].answers, a)]

\* the_stack::find_answer: innermost frame first, then the top level map.
find_answer(ts, q) ==
  LET hits == {k \in 1..Len(ts.vector) : MapFind(ts.vector[k].answers, q) # NoAnswer}
      k == CHOOSE x \in hits : \A y \in hits : y <= x
  IN IF hits # {} THEN MapFind(ts.vector[k].answers, q) ELSE MapFind(ts.answers, q)

\* the_stack::process_begin_loop with the operand answer given: a frame is
\* pushed unless the top frame is already one of that begin loop.
push_begin_loop(ts, qbl, loa) ==
  IF ts.vector # <<>> /\ Top(ts).question_begin_loop = qbl
  THEN ts
  ELSE [ts EXCEPT !.vector = Append(ts.vector, the_stack_frame(qbl, loa))]

stack_process_begin_loop_mut(qs, ts, qbl) ==
  The({ IF loa = NoAnswer THEN [loa |-> NoAnswer, ts |-> ts]
        ELSE [loa |-> loa, ts |-> push_begin_loop(ts, qbl, loa)]
        : loa \in {find_answer(ts, qs[qbl].operand_question)} })

\* the_stack::process_begin_loop: returns the operand answer, null when the
\* loop is not to be run.
stack_process_begin_loop(qs, ts, qbl) ==
  The({ IF loa = NoAnswer THEN [loa |-> NoAnswer, ts |-> ts]
        ELSE IF calculate_loop_variable_value(loa, 0) = 0 THEN [loa |-> NoAnswer, ts |-> ts]
        ELSE [loa |-> loa, ts |-> push_begin_loop(ts, qbl, loa)]
        : loa \in {find_answer(ts, qs[qbl].operand_question)} })

stack_process_end_loop_mut(ts) ==
  LET i == Top(ts).index + 1 IN
  IF i > Top(ts).loop_operand_size
  THEN [iterating |-> FALSE, ts |-> [ts EXCEPT !.vector = Front(ts.vector)]]
  ELSE [iterating |-> TRUE, ts |-> [ts EXCEPT !.vector[Len(ts.vector)].index = i]]

\* the_stack::process_end_loop, on a stack that is not empty: iterating is
\* true if no frame was popped.
stack_process_end_loop(ts) ==
  LET i == Top(ts).index + 1 IN
  IF i = Top(ts).loop_operand_size
  THEN [iterating |-> FALSE, ts |-> [ts EXCEPT !.vector = Front(ts.vector)]]
  ELSE [iterating |-> TRUE, ts |-> [ts EXCEPT !.vector[Len(ts.vector)].index = i]]

(***************************************************************************)
(* Transitions.                                                            *)
(***************************************************************************)
\* transition::run: the destination if the transition is taken, 0 if not.
\* A snippet that uses a variable which is not injected raises in the host.
transition_run(ts, t) ==
  IF empty(t.condition) THEN [err |-> "ok", q |-> t.destination]
  ELSE IF \A j \in 1..Len(t.parameters) : t.parameters[j] # t.condition.p
  THEN [err |-> "javascript_error", q |-> 0]
  ELSE IF \E a \in {find_answer(ts, t.condition.p)} : a # NoAnswer /\ a.c = t.condition.v
  THEN [err |-> "ok", q |-> t.destination]
  ELSE [err |-> "ok", q |-> 0]

RECURSIVE run_transitions_from(_, _, _)
run_transitions_from(ts, transitions, k) ==
  IF k > Len(transitions) THEN [err |-> "internal_error", q |-> 0]
  ELSE The({ IF r.err # "ok" \/ r.q # 0 THEN r
             ELSE run_transitions_from(ts, transitions, k + 1)
             : r \in {transition_run(ts, transitions[k])} })



\* question::run_transitions
run_transitions(qs, ts, q) == run_transitions_from(ts, qs[q].transitions, 1)

(***************************************************************************)
(* History entries (entry_answer, entry_begin_loop, entry_end_loop).  The  *)
(* weak link of a begin loop entry to its operand answer is the position   *)
(* of the entry of that answer in the history, 0 when the link is null.    *)
(***************************************************************************)
entry_answer(a) ==
  [type |-> "answer", q |-> a.q, answer |-> a, loa |-> 0, index |-> 0]

entry_begin_loop(qbl, loa, index) ==
  [type |-> "begin_loop", q |-> qbl, answer |-> NoAnswer, loa |-> loa.pos, index |-> index]

entry_end_loop(qel) ==
  [type |-> "end_loop", q |-> qel, answer |-> NoAnswer, loa |-> 0, index |-> 0]

\* The history without its entries i..(j - 1) (own_list::erase): the entries
\* that follow move down, and a weak link to an erased answer becomes null.
Erase(h, i, j) ==
  LET move(k) == IF k < i THEN k ELSE IF k < j THEN 0 ELSE k - (j - i)
      fix(e) == IF e.type = "answer" THEN [e EXCEPT !.answer.pos = move(e.answer.pos)]
                ELSE IF e.type = "begin_loop" THEN [e EXCEPT !.loa = move(e.loa)]
                ELSE e
  IN [k \in 1..(Len(h) - (j - i)) |-> IF k < i THEN fix(h[k]) ELSE fix(h[k + (j - i)])]

(***************************************************************************)
(* Outcome of the behaviours the language leaves undefined (a failed       *)
(* assertion compiled out, the last frame of an empty stack, a null weak   *)
(* link dereferenced): the call either dies or goes on.                    *)
(***************************************************************************)
Undefined == {"abort", "continue"}

\* the_stack::process_entry
process_entry(h, ts, e, ub) ==
  IF e.type = "answer" THEN [err |-> "ok", ts |-> replace_answer(ts, e.answer)]
  ELSE IF e.type = "begin_loop"
  THEN IF e.loa = 0
       THEN [err |-> IF ub = "abort" THEN "undefined" ELSE "ok", ts |-> ts]
       ELSE [err |-> "ok", ts |-> push_begin_loop(ts, e.q, h[e.loa].answer)]
  ELSE IF ts.vector = <<>>
       THEN [err |-> IF ub = "abort" THEN "undefined" ELSE "ok", ts |-> ts]
       ELSE [err |-> "ok", ts |-> stack_process_end_loop(ts).ts]

\* interview::calculate: the stack after the entries 1..(pos - 1).
RECURSIVE calculate_from(_, _, _, _, _)
calculate_from(h, ts, i, pos, ub) ==
  IF i >= pos THEN [err |-> "ok", ts |-> ts]
  ELSE The({ IF r.err # "ok" THEN r ELSE calculate_from(h, r.ts, i + 1, pos, ub)
             : r \in {process_entry(h, ts, h[i], ub)} })

calculate(h, pos, ub) == calculate_from(h, EmptyStack, 1, pos, ub)

(***************************************************************************)
(* Advance: calculation of the new next question after an answer.  The     *)
(* state st of the calculation holds the stack, the history and the trace  *)
(* of the steps made (transitions run, loops entered, skipped and ended).  *)
(***************************************************************************)
\* Loop steps one calculation may make before it is held not to return.
MaxSteps == 8

Failure(err, st) == [err |-> err, q |-> 0, st |-> st]

Step(st, ev, q, dest) ==
  [st EXCEPT !.trace = Append(st.trace, [ev |-> ev, q |-> q, dest |-> dest])]

\* interview::find_matching_end_loop
RECURSIVE matching_end_loop_from(_, _, _)
matching_end_loop_from(qs, i, lc) ==
  IF i > Len(qs) THEN 0
  ELSE LET c == IF qs[i].type = "begin_loop" THEN lc + 1
                ELSE IF qs[i].type = "end_loop" THEN lc - 1 ELSE lc
       IN IF c = 0 THEN i ELSE matching_end_loop_from(qs, i + 1, c)

find_matching_end_loop(qs, qbl) == matching_end_loop_from(qs, qbl + 1, 1)

RECURSIVE calculate_new_next_question_from(_, _, _, _)
RECURSIVE process_begin_loop(_, _, _, _)
RECURSIVE process_end_loop(_, _, _, _)

\* interview::calculate_new_next_question(the_stack&, const question_r&)
calculate_new_next_question_from(qs, st, q, n) ==
  IF supports_localization(qs[q]) THEN [err |-> "ok", q |-> q, st |-> st]
  ELSE IF qs[q].type = "begin_loop" THEN process_begin_loop(qs, st, q, n)
  ELSE IF qs[q].type = "end_loop" THEN process_end_loop(qs, st, q, n)
  ELSE Failure("internal_error", st)

skip_loop_mut(qs, st, qbl, n) ==
  The({ IF qel = 0 THEN Failure("internal_error", st)
        ELSE The({
          IF t.err # "ok" THEN Failure(t.err, st)
          ELSE The({
            IF qs[t.q].type = "begin_loop" THEN process_begin_loop(qs, st1, t.q, n)
            ELSE IF qs[t.q].type = "end_loop" THEN process_end_loop(qs, st1, t.q, n)
            ELSE calculate_new_next_question_from(qs, st1, t.q, n)
            : st1 \in {Step(Step([st EXCEPT !.history =
                                     Append(st.history, entry_end_loop(qel))],
                                 "skip", qbl, qel), "transitions", qel, t.q)} })
          : t \in {run_transitions(qs, st.ts, qel)} })
        : qel \in {find_matching_end_loop(qs, qbl)} })

\* What interview::process_begin_loop does when the loop is not run: the
\* matching end loop is looked for, and its transitions are run.
skip_loop(qs, st, qbl, n) ==
  The({ IF qel = 0 THEN Failure("internal_error", st)
        ELSE The({
          IF t.err # "ok" THEN Failure(t.err, st)
          ELSE The({
            IF qs[t.q].type = "begin_loop" THEN process_begin_loop(qs, st1, t.q, n)
            ELSE IF qs[t.q].type = "end_loop" THEN process_end_loop(qs, st1, t.q, n)
            ELSE calculate_new_next_question_from(qs, st1, t.q, n)
            : st1 \in {Step(Step(st, "skip", qbl, qel), "transitions", qel, t.q)} })
          : t \in {run_transitions(qs, st.ts, qel)} })
        : qel \in {find_matching_end_loop(qs, qbl)} })

\* interview::process_begin_loop
process_begin_loop(qs, st, qbl, n) ==
  The({ IF r.loa = NoAnswer THEN skip_loop(qs, st, qbl, n)
        ELSE The({
          The({
            IF t.err # "ok" THEN Failure(t.err, st1)
            ELSE IF qs[t.q].type = "end_loop" THEN process_end_loop(qs, st1, t.q, n)
            ELSE calculate_new_next_question_from(qs, st1, t.q, n)
            : st1 \in {Step(Step([st EXCEPT
                                    !.ts = r.ts,
                                    !.history = Append(st.history,
                                       entry_begin_loop(qbl, r.loa, Top(r.ts).index))],
                                 "enter", qbl, 0), "transitions", qbl, t.q)} })
          : t \in {run_transitions(qs, r.ts, qbl)} })
        : r \in {stack_process_begin_loop(qs, st.ts, qbl)} })

\* interview::process_end_loop
process_end_loop(qs, st, qel, n) ==
  IF n = 0 THEN Failure("no_return", st)
  ELSE IF st.ts.vector = <<>> THEN Failure("question_loop_logic_error", st)
  ELSE The({
    The({
      IF r.iterating
      THEN The({
             IF t.err # "ok" THEN Failure(t.err, st1)
             ELSE The({
               IF qs[t.q].type = "end_loop" THEN process_end_loop(qs, st2, t.q, n - 1)
               ELSE calculate_new_next_question_from(qs, st2, t.q, n - 1)
               : st2 \in {Step(st1, "transitions", Top(r.ts).question_begin_loop, t.q)} })
             : t \in {run_transitions(qs, r.ts, Top(r.ts).question_begin_loop)} })
      ELSE The({
             IF t.err # "ok" THEN Failure(t.err, st1)
             ELSE The({
               IF qs[t.q].type = "begin_loop" THEN process_begin_loop(qs, st2, t.q, n - 1)
               ELSE IF qs[t.q].type = "end_loop" THEN process_end_loop(qs, st2, t.q, n - 1)
               ELSE calculate_new_next_question_from(qs, st2, t.q, n - 1)
               : st2 \in {Step(st1, "transitions", qel, t.q)} })
             : t \in {run_transitions(qs, r.ts, qel)} })
      : st1 \in {Step([st EXCEPT !.ts = r.ts,
                                 !.history = Append(st.history, entry_end_loop(qel))],
                      "end_loop", qel, IF r.iterating THEN 1 ELSE 0)} })
    : r \in {stack_process_end_loop(st.ts)} })

\* interview::calculate_new_next_question(the_stack&), before the next
\* question is set.
calculate_new_next_question(qs, st, next_question) ==
  The({ IF t.err # "ok" THEN Failure(t.err, st)
        ELSE The({ calculate_new_next_question_from(qs, st1, t.q, MaxSteps)
                   : st1 \in {Step(st, "transitions", next_question, t.q)} })
        : t \in {run_transitions(qs, st.ts, next_question)} })

(***************************************************************************)
(* Campaigns and interviews.                                               *)
(***************************************************************************)
\* campaign::campaign
make_campaign(start, duration) ==
  [start |-> start, duration |-> duration, end |-> start + duration]

\* campaign::check_active
check_active(c, t) ==
  IF c.start # 0
  THEN IF t < c.start THEN "campaign_is_not_yet_active"
       ELSE IF c.duration # 0 /\ t > c.end THEN "campaign_expired"
       ELSE "ok"
  ELSE "ok"

\* interview::interview
make_interview ==
  [state |-> "initiated", next_question |-> 0, language |-> 0,
   questionnaire_localization |-> 0, start_ip_address |-> 0,
   start_timestamp |-> 0, interviewee_id |-> 0, interviewer_id |-> 0,
   history |-> <<>>]

\* interview::set_next_question
set_next_question(qs, i, q) ==
  [i EXCEPT !.state = IF is_final(qs[q]) THEN "completed" ELSE i.state,
            !.next_question = q]



\* interview::check_live
check_live(i, c, t) ==
  IF i.state = "initiated" THEN "interview_is_not_started" ELSE check_active(c, t)

\* The localization of a question: that of the questionnaire localization if
\* the question has one, else that of the template library; "none" if there
\* is none (interview::next_localized_question).
localization(qs, i, q) ==
  IF qs[q].type = "with_body" /\ i.questionnaire_localization # 0 THEN "question"
  ELSE IF qs[q].type = "from_template" /\ i.language \in TemplateLanguages THEN "template"
  ELSE "none"

start_mut(qs, i, t, interviewee_id, interviewer_id, language, ip) ==
  LET j == [i EXCEPT !.start_ip_address = ip, !.start_timestamp = t,
                     !.interviewee_id = interviewee_id,
                     !.interviewer_id = interviewer_id,
                     !.language = language,
                     !.questionnaire_localization =
                        IF language \in LocalizedLanguages THEN language ELSE 0]
  IN IF j.questionnaire_localization = 0
     THEN [err |-> "questionnaire_localization_does_not_exist", iv |-> j]
     ELSE IF i.state = "completed"
     THEN [err |-> "interview_is_already_started", iv |-> j]
     ELSE [err |-> "ok", iv |-> set_next_question(qs, [j EXCEPT !.state = "ongoing"], 1)]

\* interview::start.  The fields are assigned before the state is tested.
start(qs, i, t, interviewee_id, interviewer_id, language, ip) ==
  LET j == [i EXCEPT !.start_ip_address = ip, !.start_timestamp = t,
                     !.interviewee_id = interviewee_id,
                     !.interviewer_id = interviewer_id,
                     !.language = language,
                     !.questionnaire_localization =
                        IF language \in LocalizedLanguages THEN language ELSE 0]
  IN IF j.questionnaire_localization = 0
     THEN [err |-> "questionnaire_localization_does_not_exist", iv |-> j]
     ELSE IF i.state # "initiated"
     THEN [err |-> "interview_is_already_started", iv |-> j]
     ELSE [err |-> "ok", iv |-> set_next_question(qs, [j EXCEPT !.state = "ongoing"], 1)]

\* Outcome of a service: the error raised ("ok" if none), the interview as
\* the service left it in memory, and the trace of the advance.
Outcome(err, i, trace) == [err |-> err, iv |-> i, trace |-> trace]

\* Service interview_start.
interview_start(qs, c, i, t, interviewee_id, interviewer_id, language, ip) ==
  IF check_active(c, t) # "ok" THEN Outcome(check_active(c, t), i, <<>>)
  ELSE The({ IF r.err # "ok" THEN Outcome(r.err, r.iv, <<>>)
             ELSE IF localization(qs, r.iv, r.iv.next_question) = "none"
             THEN Outcome("internal_error", r.iv, <<>>)
             ELSE Outcome("ok", r.iv, <<>>)
             : r \in {start(qs, i, t, interviewee_id, interviewer_id, language, ip)} })

\* Number of options of the select questions.
NOptions == 2

\* answer_payload::compile: validation of the payload against the body.
answer_compile(body, p) ==
  IF body = "select" /\ (p.c < 0 \/ p.c >= NOptions) THEN "answer_is_incorrect"
  ELSE "ok"

move_ahead_mut(qs, i, ub) ==
  The({ IF c.err # "ok" THEN Outcome(c.err, i, <<>>)
        ELSE The({ IF t.err # "ok" THEN Outcome(t.err, i, <<>>)
                   ELSE Outcome("ok", set_next_question(qs, i, t.q), <<>>)
                   : t \in {run_transitions(qs, c.ts, i.next_question)} })
        : c \in {calculate(i.history, Len(i.history) + 1, ub)} })

\* interview::move_ahead
move_ahead(qs, i, ub) ==
  The({ IF c.err # "ok" THEN Outcome(c.err, i, <<>>)
        ELSE The({
          IF r.err # "ok"
          THEN Outcome(r.err, [i EXCEPT !.history = r.st.history], r.st.trace)
          ELSE The({
            IF localization(qs, j, r.q) = "none"
            THEN Outcome("internal_error", j, r.st.trace)
            ELSE Outcome("ok", j, r.st.trace)
            : j \in {set_next_question(qs, [i EXCEPT !.history = r.st.history], r.q)} })
          : r \in {calculate_new_next_question(
                     qs, [ts |-> c.ts, history |-> i.history, trace |-> <<>>],
                     i.next_question)} })
        : c \in {calculate(i.history, Len(i.history) + 1, ub)} })

add_answer_mut(i, a) == [i EXCEPT !.history = <<entry_answer(a)>> \o i.history]

\* interview::add_answer
add_answer(i, a) == [i EXCEPT !.history = Append(i.history, entry_answer(a))]

answer_srv_mut(qs, c, i, t, p, ub) ==
  IF p = NoPayload THEN Outcome("answer_is_missing", i, <<>>)
  ELSE IF check_live(i, c, t) # "ok" THEN Outcome(check_live(i, c, t), i, <<>>)
  ELSE IF localization(qs, i, i.next_question) = "none"
  THEN Outcome("undefined", i, <<>>)
  ELSE IF answer_compile(qs[i.next_question].body, p) # "ok"
  THEN Outcome(answer_compile(qs[i.next_question].body, p), i, <<>>)
  ELSE The({ move_ahead(qs, j, ub)
             : j \in {add_answer(i, make_answer(i.next_question, p, Len(i.history) + 1))} })

\* Service answer.
answer_srv(qs, c, i, t, p, ub) ==
  IF p = NoPayload THEN Outcome("answer_is_missing", i, <<>>)
  ELSE IF check_live(i, c, t) # "ok" THEN Outcome(check_live(i, c, t), i, <<>>)
  ELSE IF i.state = "completed" THEN Outcome("interview_is_already_completed", i, <<>>)
  ELSE IF localization(qs, i, i.next_question) = "none"
  THEN Outcome("undefined", i, <<>>)
  ELSE IF answer_compile(qs[i.next_question].body, p) # "ok"
  THEN Outcome(answer_compile(qs[i.next_question].body, p), i, <<>>)
  ELSE The({ move_ahead(qs, j, ub)
             : j \in {add_answer(i, make_answer(i.next_question, p, Len(i.history) + 1))} })

(***************************************************************************)
(* Answer revision.                                                        *)
(***************************************************************************)
\* find_next_regular_question.  The result of the_stack::process_end_loop
\* is not used, and the stack is not tested for emptiness before it.
RECURSIVE find_next_regular_question(_, _, _, _)
find_next_regular_question(qs, ts, f, ub) ==
  IF get_loop_type(qs[f]) = "regular" THEN [err |-> "ok", q |-> f, ts |-> ts]
  ELSE IF qs[f].type = "end_loop" /\ ts.vector = <<>> /\ ub = "abort"
  THEN [err |-> "undefined", q |-> 0, ts |-> ts]
  ELSE The({
    The({ IF t.err # "ok" THEN [err |-> t.err, q |-> 0, ts |-> ts1]
          ELSE find_next_regular_question(qs, ts1, t.q, ub)
          : t \in {run_transitions(qs, ts1, f)} })
    : ts1 \in {IF qs[f].type = "begin_loop" THEN stack_process_begin_loop(qs, ts, f).ts
               ELSE IF ts.vector = <<>> THEN ts
               ELSE stack_process_end_loop(ts).ts} })

\* question_body::is_impacted_by
question_is_impacted_by(qs, q, r) ==
  /\ qs[q].type = "with_body"
  /\ \E k \in 1..Len(qs[q].text_functions) :
       \E j \in 1..Len(qs[q].text_functions[k]) : qs[q].text_functions[k][j] = r

\* entry::is_impacted_by and its overrides; pa is the revised answer.
is_impacted_by(qs, e, pa) ==
  IF e.type = "answer" THEN question_is_impacted_by(qs, e.q, pa.q)
  ELSE IF e.type = "begin_loop" THEN e.loa = pa.pos
  ELSE FALSE

\* What a function is given for a parameter: the body of the answer found
\* on the stack, null if there is none.
Argument(ts, q) ==
  The({ IF a = NoAnswer THEN NoPayload ELSE Payload(a.c, a.arr, a.elems)
        : a \in {find_answer(ts, q)} })

\* question_body::calculate_text: the text is determined by the values of
\* the text functions, each the tuple of its arguments.
calculate_text(qs, ts, q) ==
  [k \in 1..Len(qs[q].text_functions) |->
     [j \in 1..Len(qs[q].text_functions[k]) |-> Argument(ts, qs[q].text_functions[k][j])]]

\* compute_loop_operand
compute_loop_operand(loa) == [arr |-> loa.arr, elems |-> loa.elems]

process_impacted_entry_mut(qs, pts, nts, ploa, nloa, e) ==
  IF e.type = "answer"
  THEN [impacted |-> FALSE, pts |-> replace_answer(pts, e.answer),
        nts |-> replace_answer(nts, e.answer)]
  ELSE IF compute_loop_operand(ploa) # compute_loop_operand(nloa)
       THEN [impacted |-> TRUE, pts |-> pts, nts |-> nts]
       ELSE [impacted |-> FALSE, pts |-> stack_process_begin_loop(qs, pts, e.q).ts,
             nts |-> stack_process_begin_loop(qs, nts, e.q).ts]

\* process_impacted_entry: true if the entry is truly impacted, else the
\* two stacks are updated.
process_impacted_entry(qs, pts, nts, ploa, nloa, e) ==
  IF e.type = "answer"
  THEN IF calculate_text(qs, pts, e.q) # calculate_text(qs, nts, e.q)
       THEN [impacted |-> TRUE, pts |-> pts, nts |-> nts]
       ELSE [impacted |-> FALSE, pts |-> replace_answer(pts, e.answer),
             nts |-> replace_answer(nts, e.answer)]
  ELSE IF compute_loop_operand(ploa) # compute_loop_operand(nloa)
       THEN [impacted |-> TRUE, pts |-> pts, nts |-> nts]
       ELSE [impacted |-> FALSE, pts |-> stack_process_begin_loop(qs, pts, e.q).ts,
             nts |-> stack_process_begin_loop(qs, nts, e.q).ts]

\* interview::resect: the position after the entries to erase, from pos.
RECURSIVE resect_end(_, _, _)
resect_end(h, pos, q) ==
  IF pos > Len(h) \/ h[pos].q = q THEN pos ELSE resect_end(h, pos + 1, q)



\* interview::resect
resect(h, pos, q) == Erase(h, pos, resect_end(h, pos, q))

\* The three exits of interview::revise_answer: the next question is the next
\* regular question from nnetq, and its localized form is built.
revise_finish(qs, i, h, nts, nnetq, ub) ==
  The({ IF f.err # "ok" THEN Outcome(f.err, [i EXCEPT !.history = h], <<>>)
        ELSE The({ IF localization(qs, j, f.q) = "none"
                   THEN Outcome("internal_error", j, <<>>)
                   ELSE Outcome("ok", j, <<>>)
                   : j \in {set_next_question(qs, [i EXCEPT !.history = h], f.q)} })
        : f \in {find_next_regular_question(qs, nts, nnetq, ub)} })

\* The loop of interview::revise_answer: k is the position of the iterator
\* in the history h, q the question whose transitions are run.
RECURSIVE revise_walk(_, _, _, _, _, _, _, _, _, _)
revise_walk(qs, i, h, pts, nts, pa, na, k, q, ub) ==
  The({
    IF t.err # "ok" THEN Outcome(t.err, [i EXCEPT !.history = h], <<>>)
    ELSE IF k > Len(h) THEN revise_finish(qs, i, h, nts, t.q, ub)
    ELSE The({
      IF k > Len(h1) THEN revise_finish(qs, i, h1, nts, t.q, ub)
      ELSE The({
        IF r.impacted
        THEN The({ revise_finish(qs, i, h2, nts, t.q, ub)
                   : h2 \in {Erase(h1, k, Len(h1) + 1)} })
        ELSE The({
          IF p1.err # "ok" THEN Outcome(p1.err, [i EXCEPT !.history = h1], <<>>)
          ELSE IF n1.err # "ok" THEN Outcome(n1.err, [i EXCEPT !.history = h1], <<>>)
          ELSE revise_walk(qs, i, h1, p1.ts, n1.ts, pa, na, k + 1, t.q, ub)
          : p1 \in {process_entry(h1, r.pts, h1[k], ub)},
            n1 \in {process_entry(h1, r.nts, h1[k], ub)} })
        : r \in {IF is_impacted_by(qs, h1[k], pa)
                 THEN process_impacted_entry(qs, pts, nts, pa, na, h1[k])
                 ELSE [impacted |-> FALSE, pts |-> pts, nts |-> nts]} })
      : h1 \in {IF t.q # h[k].q THEN resect(h, k, t.q) ELSE h} })
    : t \in {run_transitions(qs, nts, q)} })

\* interview::revise_answer
revise_answer(qs, i, pos, na, ub) ==
  IF i.history[pos].type # "answer" THEN Outcome("internal_error", i, <<>>)
  ELSE IF i.history[pos].answer.q # na.q THEN Outcome("answer_is_incorrect", i, <<>>)
  ELSE The({
    IF c.err # "ok" THEN Outcome(c.err, i, <<>>)
    ELSE The({ revise_walk(qs, i, h, pts, nts, pa, na, pos + 1, pa.q, ub)
               : pts \in {replace_answer(c.ts, pa)},
                 nts \in {replace_answer(c.ts, na)},
                 h \in {[i.history EXCEPT ![pos] = entry_answer(na)]} })
    : pa \in {i.history[pos].answer}, c \in {calculate(i.history, pos, ub)} })



\* Service answer_revise; index is the 0-based position in the history.
answer_revise_srv(qs, c, i, t, index, p, ub) ==
  IF p = NoPayload THEN Outcome("answer_is_missing", i, <<>>)
  ELSE IF check_live(i, c, t) # "ok" THEN Outcome(check_live(i, c, t), i, <<>>)
  ELSE IF index >= Len(i.history) \/ i.history[index + 1].type # "answer"
  THEN Outcome("answer_index_does_not_exist", i, <<>>)
  ELSE IF answer_compile(qs[i.history[index + 1].q].body, p) # "ok"
  THEN Outcome(answer_compile(qs[i.history[index + 1].q].body, p), i, <<>>)
  ELSE The({ revise_answer(qs, i, index + 1, na, ub)
             : na \in {make_answer(i.history[index + 1].q, p, index + 1)} })

(***************************************************************************)
(* The questionnaires the campaigns are created for.                       *)
(***************************************************************************)
\* A single final message.
Src1 == <<SMessage(<<>>)>>

\* A branch on the first answer, and a question whose text is calculated
\* from the first answer.
Src2 ==
  <<SSelect(<<ST(Test(1, 0), NoExpr, 3), STo(2)>>),
    SInput(<<STo(3)>>),
    SQ("select", <<STo(4)>>, 0, <<(<<1>>)>>),
    SMessage(<<>>)>>

\* The last transition has no condition but has code.
Src3 ==
  <<SSelect(<<ST(NoExpr, Test(1, 0), 2)>>),
    SMessage(<<>>)>>

\* A loop on the answer to the first question.
Src4 ==
  <<SInput(<<>>),
    SBeginLoop(1, <<>>),
    SSelect(<<>>),
    SEndLoop(<<>>),
    SSelect(<<>>),
    SMessage(<<>>)>>

\* A loop reached or not according to the first answer, whose begin loop
\* goes to its end loop according to the first answer.
Src5 ==
  <<SSelect(<<ST(Test(1, 0), NoExpr, 3), STo(2)>>),
    SInput(<<>>),
    SBeginLoop(2, <<>>),
    SSelect(<<>>),
    SEndLoop(<<>>),
    SMessage(<<>>)>>

\* A question from the template library.
Src6 ==
  <<SSelect(<<ST(Test(1, 0), NoExpr, 2), STo(3)>>),
    STemplate(<<>>),
    SMessage(<<>>)>>

\* A loop in a loop, the inner one on an answer given in the outer one.
Src7 ==
  <<SInput(<<>>),
    SBeginLoop(1, <<>>),
    SInput(<<>>),
    SBeginLoop(3, <<>>),
    SSelect(<<>>),
    SEndLoop(<<>>),
    SEndLoop(<<>>),
    SMessage(<<>>)>>

\* Rejected by the compilation: a transition to a previous question.
Src8 ==
  <<SSelect(<<>>),
    SSelect(<<ST(Test(1, 0), NoExpr, 1), STo(3)>>),
    SMessage(<<>>)>>

Sources == {Src1, Src2, Src3, Src4, Src5, Src6, Src8}

\* The questionnaires of the campaigns whose interviews are only advanced.
LoopSources == {Src4, Src5, Src7}

\* The campaigns: without a window, and with a window of one unit of time.
Campaigns == {make_campaign(0, 0), make_campaign(1, 1)}

\* The payloads a client sends for a question, by the body of the question:
\* a select without a choice (-1) or with a choice index, an input with the
\* value the loop operand expression extracts from it, a message.
MessagePayload == Payload(-1, FALSE, <<>>)

SelectPayloads == {Payload(c, FALSE, <<>>) : c \in (-1)..NOptions}

InputPayloads ==
  {Payload(-1, TRUE, <<>>), Payload(-1, TRUE, <<1>>), Payload(-1, TRUE, <<1, 2>>),
   Payload(-1, TRUE, <<0, 1>>)}

PayloadsFor(body) ==
  IF body = "select" THEN SelectPayloads \cup {NoPayload}
  ELSE IF body = "input" THEN InputPayloads \cup {NoPayload}
  ELSE {MessagePayload, NoPayload}

Interviewees == {1}

Interviewers == {3}

Addresses == {1}

(***************************************************************************)
(* The state: the compiled questionnaire of the campaign, the campaign,    *)
(* the time, the interview as stored, and the last request with its reply  *)
(* (the error, the steps of the advance, and the interview as the service  *)
(* left it in memory); the lock and the change count of the questionnaire, *)
(* and its localization.                                                   *)
(***************************************************************************)
VARIABLES questions, campaign, now, iv, reply, questionnaire,
          questionnaire_localization

vars ==
  <<questions, campaign, now, iv, reply, questionnaire,
    questionnaire_localization>>

\* questionnaire::questionnaire: unlocked, with a change count of 1.
make_questionnaire == [locked |-> FALSE, change_count |-> 1]

\* questionnaire_localization::questionnaire_localization: no check of the
\* questionnaire recorded (0), no question localization.
make_questionnaire_localization ==
  [questionnaire_change_count |-> 0, questions_localizations |-> <<>>]

\* The questions a source questionnaire holds a localization for.
RECURSIVE Localized(_, _)
Localized(qs, i) ==
  IF i > Len(qs) THEN <<>>
  ELSE IF qs[i].type = "with_body" THEN <<i>> \o Localized(qs, i + 1)
  ELSE Localized(qs, i + 1)

\* The questionnaire and the localization source_questionnaire::compile
\* leaves: every question pushed has changed the questionnaire.
Compiled(qs) ==
  [questionnaire |-> [locked |-> FALSE, change_count |-> 1 + Len(qs)],
   questionnaire_localization |->
     [questionnaire_change_count |-> 0,
      questions_localizations |-> Localized(qs, 1)]]

\* The questionnaire of a campaign, locked, with its localization checked.
Published(qs) ==
  [questionnaire |-> [locked |-> TRUE, change_count |-> 1 + Len(qs)],
   questionnaire_localization |->
     [questionnaire_change_count |-> 1 + Len(qs),
      questions_localizations |-> Localized(qs, 1)]]

Request(op, index, payload, out) ==
  [op |-> op, err |-> out.err, index |-> index, payload |-> payload,
   trace |-> out.trace, memory |-> out.iv]

Commit_mut(i, out) == out.iv

\* The store keeps what a service did to a document when the service
\* returns, and nothing of it when the service raises.
Commit(i, out) == IF out.err = "ok" THEN out.iv ELSE i

Init ==
  /\ \E src \in Sources, ub \in Undefined :
       \E c \in {compile(src, ub)} :
         /\ c.err = "ok"
         /\ check_orphans(c.questions) = 0
         /\ questions = c.questions
  /\ campaign \in Campaigns
  /\ now = 0
  /\ iv = make_interview
  /\ reply = [op |-> "none", err |-> "ok", index |-> 0, payload |-> NoPayload,
              trace |-> <<>>, memory |-> make_interview]
  /\ questionnaire = Published(questions).questionnaire
  /\ questionnaire_localization = Published(questions).questionnaire_localization

Start ==
  \E interviewee_id \in Interviewees, interviewer_id \in Interviewers,
     language \in Languages, ip \in Addresses :
    \E out \in {interview_start(questions, campaign, iv, now, interviewee_id,
                                interviewer_id, language, ip)} :
      /\ iv' = Commit(iv, out)
      /\ reply' = Request("start", 0, NoPayload, out)
      /\ UNCHANGED <<questions, campaign, now, questionnaire, questionnaire_localization>>

NextBody == IF iv.next_question = 0 THEN "message" ELSE questions[iv.next_question].body

Submit ==
  /\ Len(iv.history) < MaxHistory
  /\ \E p \in PayloadsFor(NextBody), ub \in Undefined :
       \E out \in {answer_srv(questions, campaign, iv, now, p, ub)} :
         /\ iv' = Commit(iv, out)
         /\ reply' = Request("submit", 0, p, out)
         /\ UNCHANGED <<questions, campaign, now, questionnaire, questionnaire_localization>>

EntryBody(index) ==
  IF index < Len(iv.history) /\ iv.history[index + 1].type = "answer"
  THEN questions[iv.history[index + 1].q].body ELSE "message"

Revise ==
  \E index \in 0..Len(iv.history), ub \in Undefined :
    \E p \in PayloadsFor(EntryBody(index)) :
      \E out \in {answer_revise_srv(questions, campaign, iv, now, index, p, ub)} :
        /\ iv' = Commit(iv, out)
        /\ reply' = Request("revise", index, p, out)
        /\ UNCHANGED <<questions, campaign, now, questionnaire, questionnaire_localization>>

Tick ==
  /\ now < MaxTime
  /\ now' = now + 1
  /\ UNCHANGED <<questions, campaign, iv, reply, questionnaire,
               questionnaire_localization>>

Next == Start \/ Submit \/ Revise \/ Tick

Spec == Init /\ [][Next]_vars

\* Interviews that are started and advanced, never revised.
InitAdvance ==
  /\ \E src \in LoopSources, ub \in Undefined :
       \E c \in {compile(src, ub)} :
         /\ c.err = "ok"
         /\ check_orphans(c.questions) = 0
         /\ questions = c.questions
  /\ campaign \in Campaigns
  /\ now = 0
  /\ iv = make_interview
  /\ reply = [op |-> "none", err |-> "ok", index |-> 0, payload |-> NoPayload,
              trace |-> <<>>, memory |-> make_interview]
  /\ questionnaire = Published(questions).questionnaire
  /\ questionnaire_localization = Published(questions).questionnaire_localization

NextAdvance == Start \/ Submit \/ Tick

SpecAdvance == InitAdvance /\ [][NextAdvance]_vars

(***************************************************************************)
(* Properties.                                                             *)
(***************************************************************************)
\* The step is a request to the service start, answer, answer_revise.
Started == reply'.op = "start" /\ now' = now

Submitted == reply'.op = "submit" /\ now' = now

Revised == reply'.op = "revise" /\ now' = now

\* C1, as stated: a submit that carries an answer fails with 'interview not
\* started' on an Initiated interview and with 'interview already completed'
\* on a Completed one, and leaves the interview as it was.
C1_SubmitOnlyOngoing_Stated ==
  [][Submitted /\ reply'.payload # NoPayload =>
       /\ iv.state = "initiated" =>
            reply'.err = "interview_is_not_started" /\ reply'.memory = iv /\ iv' = iv
       /\ iv.state = "completed" =>
            reply'.err = "interview_is_already_completed" /\ reply'.memory = iv /\ iv' = iv]_vars

\* C1, amended: a submit that carries an answer fails on an Initiated
\* interview with 'interview not started', and on a Completed interview with
\* the error of the campaign if the campaign is not active, else with
\* 'interview already completed'; in both cases the interview is left as it
\* was, in memory and in the store.
C1_SubmitOnlyOngoing ==
  [][Submitted /\ reply'.payload # NoPayload =>
       /\ iv.state = "initiated" =>
            reply'.err = "interview_is_not_started" /\ reply'.memory = iv /\ iv' = iv
       /\ iv.state = "completed" =>
            /\ reply'.err = IF now < campaign.start THEN "campaign_is_not_yet_active"
                            ELSE IF campaign.start # 0 /\ campaign.duration # 0
                                    /\ now > campaign.start + campaign.duration
                            THEN "campaign_expired"
                            ELSE "interview_is_already_completed"
            /\ reply'.memory = iv
            /\ iv' = iv]_vars

\* A submit was refused on a Completed interview whose campaign is active.
C1_Witness ==
  /\ reply.op = "submit"
  /\ reply.err = "interview_is_already_completed"
  /\ iv.state = "completed"
  /\ iv.history # <<>>

\* C2: a revise that carries an answer fails on an Initiated interview and
\* on a Completed interview, and leaves the interview as it was.
C2_ReviseOnlyOngoing ==
  [][Revised /\ reply'.payload # NoPayload /\ iv.state \in {"initiated", "completed"} =>
       reply'.err # "ok" /\ iv' = iv]_vars

C4_CompletedIffTerminal ==
  iv.state = "completed" <=>
    /\ iv.state # "initiated"
    /\ iv.next_question # 0
    /\ Len(questions[iv.next_question].transitions) = 0
    /\ questions[iv.next_question].body = "message"

\* C5: once the interview is started its next question is not null and is
\* neither a begin loop nor an end loop.
C5_NextQuestionRegular ==
  iv.state # "initiated" =>
    /\ iv.next_question \in 1..Len(questions)
    /\ questions[iv.next_question].type \notin {"begin_loop", "end_loop"}

\* A revise succeeded whose search of the next question went through a loop
\* question: the next question follows an end loop.
C5_Witness ==
  /\ reply.op = "revise"
  /\ reply.err = "ok"
  /\ iv.next_question > 1
  /\ questions[iv.next_question - 1].type = "end_loop"

\* The stack of the interview as the last service left it in memory, after
\* all the entries of its history.
MemoryStack ==
  calculate(reply.memory.history, Len(reply.memory.history) + 1, "continue").ts

\* The transitions of q that transition::run takes on the stack ts.
Taken(ts, q) ==
  {k \in 1..Len(questions[q].transitions) :
     LET t == questions[q].transitions[k] IN
       \/ t.condition.p = 0
       \/ \E a \in {find_answer(ts, t.condition.p)} : a.q # 0 /\ a.c = t.condition.v}

\* C6: on the stack of the interview, run_transitions on a question that is
\* answered and not terminal returns the destination of the first of its
\* transitions that is taken, and one is taken.
C6_RunTransitions ==
  \A q \in 1..Len(questions) :
    ~is_final(questions[q]) /\ find_answer(MemoryStack, q) # NoAnswer =>
      /\ Taken(MemoryStack, q) # {}
      /\ \E k \in Taken(MemoryStack, q) :
           /\ \A j \in Taken(MemoryStack, q) : k <= j
           /\ run_transitions(questions, MemoryStack, q) =
                [err |-> "ok", q |-> questions[q].transitions[k].destination]

\* The begin loops that are open after question i, the innermost last.
RECURSIVE Open(_)
Open(i) ==
  IF i = 0 THEN <<>>
  ELSE IF questions[i].type = "begin_loop" THEN Append(Open(i - 1), i)
  ELSE IF questions[i].type = "end_loop" THEN Front(Open(i - 1))
  ELSE Open(i - 1)

\* The begin loops question q is in the body of.
Nest(q) == IF questions[q].type = "begin_loop" THEN Open(q - 1) ELSE Open(q)

\* The end loop that closes the begin loop qbl.
MatchingEndLoop(qbl) ==
  CHOOSE e \in (qbl + 1)..Len(questions) :
    /\ questions[e].type = "end_loop"
    /\ Nest(e) = Nest(qbl)
    /\ \A f \in (qbl + 1)..(e - 1) :
         ~(questions[f].type = "end_loop" /\ Nest(f) = Nest(qbl))

\* The loops in progress after the first k entries of the history h, each
\* with the length n of its operand (0 unless the operand is an array of
\* one element or more whose element 0 is not null) and the count of its
\* passes ended; ok is false if the entries are not those of loops run pass
\* after pass: an answer outside the body of the innermost loop in progress,
\* a begin loop entry which is not the entry into a loop of that body, an
\* end loop entry which is not the end of a pass of that loop.
RECURSIVE Passes(_, _)
Passes(h, k) ==
  IF k = 0 THEN [ok |-> TRUE, loops |-> <<>>]
  ELSE
    LET s == Passes(h, k - 1)
        e == h[k]
        open == [j \in 1..Len(s.loops) |-> s.loops[j].qbl]
        top == s.loops[Len(s.loops)]
    IN
    IF ~s.ok THEN s
    ELSE IF e.type = "answer" THEN [ok |-> Nest(e.q) = open, loops |-> s.loops]
    ELSE IF e.type = "begin_loop"
    THEN [ok |-> /\ Nest(e.q) = open
                 /\ e.index = 0
                 /\ e.loa \in 1..(k - 1)
                 /\ h[e.loa].type = "answer"
                 /\ h[e.loa].q = questions[e.q].operand_question,
          loops |-> Append(s.loops,
                      [qbl |-> e.q, loa |-> e.loa, count |-> 0,
                       n |-> IF e.loa \in 1..(k - 1) /\ h[e.loa].answer.arr
                                /\ h[e.loa].answer.elems # <<>>
                                /\ h[e.loa].answer.elems[1] # 0
                             THEN Len(h[e.loa].answer.elems) ELSE 0])]
    ELSE IF s.loops = <<>> THEN [ok |-> FALSE, loops |-> <<>>]
    ELSE [ok |-> /\ e.q = MatchingEndLoop(top.qbl)
                 /\ top.n >= 1 => top.count < top.n,
          loops |-> IF top.count + 1 = top.n THEN Front(s.loops)
                    ELSE [s.loops EXCEPT ![Len(s.loops)].count = top.count + 1]]

LastAnswer(h, q) ==
  LET at == {k \in 1..Len(h) : h[k].type = "answer" /\ h[k].q = q} IN
  IF at = {} THEN NoAnswer
  ELSE h[CHOOSE k \in at : \A j \in at : j <= k].answer

\* The operand answer of the begin loop qbl is absent, or the value of index
\* 0 of the loop variable is absent or null.
NotToRun(h, qbl) ==
  LET a == LastAnswer(h, questions[qbl].operand_question) IN
  a = NoAnswer \/ a.elems = <<>> \/ a.elems[1] = 0

\* C8: when the advance of a submit reaches a begin loop whose operand answer
\* is absent, or whose value of index 0 is absent or null, the loop is
\* skipped: the transitions of the matching end loop are run next, the stack
\* has no frame of the loop, and the next question is not in its body.
C8_LoopSkipped ==
  [][Submitted =>
       \A k \in 1..Len(reply'.trace) :
         LET e == reply'.trace[k] IN
         ( /\ e.ev = "transitions"
           /\ e.dest # 0
           /\ questions[e.dest].type = "begin_loop"
           /\ NotToRun(reply'.memory.history, e.dest) ) =>
           /\ k + 2 <= Len(reply'.trace)
           /\ reply'.trace[k + 1] =
                [ev |-> "skip", q |-> e.dest, dest |-> MatchingEndLoop(e.dest)]
           /\ reply'.trace[k + 2].ev = "transitions"
           /\ reply'.trace[k + 2].q = MatchingEndLoop(e.dest)
           /\ \A j \in 1..Len(MemoryStack'.vector) :
                MemoryStack'.vector[j].question_begin_loop # e.dest
           /\ reply'.err = "ok"
           /\ \A j \in 1..Len(Nest(iv'.next_question)) :
                Nest(iv'.next_question)[j] # e.dest]_vars

\* The last submit skipped a loop whose operand answer is an array of which
\* element 0 is null.
C8_Witness ==
  /\ reply.op = "submit"
  /\ reply.err = "ok"
  /\ \E k \in 1..Len(reply.trace) :
       /\ reply.trace[k].ev = "skip"
       /\ LastAnswer(iv.history, questions[reply.trace[k].q].operand_question).elems
            = <<0, 1>>

\* C9, as stated: when the advance of a submit skips a loop, an end loop
\* entry of the matching end loop is appended to the history.
C9_SkipAppendsEndLoop_Stated ==
  [][Submitted /\ reply'.err = "ok" =>
       \A k \in 1..Len(reply'.trace) :
         reply'.trace[k].ev = "skip" =>
           \E j \in (Len(iv.history) + 1)..Len(iv'.history) :
             /\ iv'.history[j].type = "end_loop"
             /\ iv'.history[j].q = reply'.trace[k].dest]_vars

\* C9, amended: when the advance of a submit skips a loop, no entry of its
\* begin loop nor of its matching end loop is appended to the history, and
\* the transitions of the end loop are run next.
C9_SkipAppendsNothing ==
  [][Submitted /\ reply'.err = "ok" =>
       \A k \in 1..Len(reply'.trace) :
         reply'.trace[k].ev = "skip" =>
           /\ Len(iv'.history) > Len(iv.history)
           /\ \A j \in (Len(iv.history) + 1)..Len(iv'.history) :
                iv'.history[j].q \notin {reply'.trace[k].q, reply'.trace[k].dest}
           /\ k < Len(reply'.trace)
           /\ reply'.trace[k + 1].ev = "transitions"
           /\ reply'.trace[k + 1].q = reply'.trace[k].dest]_vars

\* The last submit skipped a loop whose operand question is not answered.
C9_Witness ==
  /\ reply.op = "submit"
  /\ reply.err = "ok"
  /\ \E k \in 1..Len(reply.trace) :
       /\ reply.trace[k].ev = "skip"
       /\ LastAnswer(iv.history, questions[reply.trace[k].q].operand_question) = NoAnswer

\* C10: the revise of an answer of an Ongoing interview, while the campaign
\* is active, by an answer of the same body succeeds and leaves the history
\* and the next question as they were.
C10_ReviseIdempotent ==
  [][( /\ Revised
       /\ iv.state = "ongoing"
       /\ check_active(campaign, now) = "ok"
       /\ reply'.index < Len(iv.history)
       /\ iv.history[reply'.index + 1].type = "answer"
       /\ reply'.payload =
            Payload(iv.history[reply'.index + 1].answer.c,
                    iv.history[reply'.index + 1].answer.arr,
                    iv.history[reply'.index + 1].answer.elems) ) =>
       /\ reply'.err = "ok"
       /\ iv'.history = iv.history
       /\ iv'.next_question = iv.next_question]_vars


\* The new stack of a revise of the entry at position pos by the payload p:
\* the stack after the entries before pos, and the new answer.
NewStack(pos, p) ==
  replace_answer(calculate(iv.history, pos, "continue").ts,
                 make_answer(iv.history[pos].q, p, pos))

\* The destination of the first transition of q taken on the stack ts, 0 if
\* none is taken.
Selected(ts, q) ==
  IF Taken(ts, q) = {} THEN 0
  ELSE questions[q].transitions[CHOOSE k \in Taken(ts, q) :
                                  \A j \in Taken(ts, q) : k <= j].destination

\* The question the advance of a submit reaches from question d on the
\* stack ts: d if it is regular, else the question the loop steps lead to.
Reached(ts, d) ==
  calculate_new_next_question_from(
    questions, [ts |-> ts, history |-> <<>>, trace |-> <<>>], d, MaxSteps).q

\* C11: when a revise succeeds and the transitions of the revised question
\* select, with the new answer, a question that no later entry of the
\* history is of, the history ends with the revised answer and the next
\* question is the first regular question reached from the selected one, a
\* loop that is not to be run being skipped.
C11_ReviseWithEffect ==
  [][( /\ Revised
       /\ reply'.err = "ok"
       /\ iv.state = "ongoing"
       /\ \A k \in (reply'.index + 2)..Len(iv.history) :
            iv.history[k].q # Selected(NewStack(reply'.index + 1, reply'.payload),
                                       iv.history[reply'.index + 1].q) ) =>
       /\ iv'.history =
            [k \in 1..(reply'.index + 1) |->
               IF k <= reply'.index THEN iv.history[k]
               ELSE entry_answer(make_answer(iv.history[k].q, reply'.payload, k))]
       /\ iv'.next_question =
            Reached(NewStack(reply'.index + 1, reply'.payload),
                    Selected(NewStack(reply'.index + 1, reply'.payload),
                             iv.history[reply'.index + 1].q))]_vars


C13_SubmitAppends ==
  [][Submitted /\ reply'.err = "ok" =>
       /\ Len(iv'.history) > Len(iv.history)
       /\ SubSeq(iv'.history, 1, Len(iv.history)) = iv.history
       /\ iv'.history[Len(iv.history) + 1].type = "answer"
       /\ iv'.history[Len(iv.history) + 1].q = iv.next_question
       /\ iv'.history[Len(iv.history) + 1].answer.q = iv.next_question
       /\ \A k \in (Len(iv.history) + 2)..Len(iv'.history) :
            iv'.history[k].type \in {"begin_loop", "end_loop"}]_vars

\* The last submit appended, to a history that already held a pass of a
\* loop, an answer, the end loop entry of the pass and nothing else.
C13_Witness ==
  /\ reply.op = "submit"
  /\ reply.err = "ok"
  /\ Len(iv.history) >= 5
  /\ iv.history[Len(iv.history)].type = "end_loop"
  /\ iv.history[Len(iv.history) - 1].type = "answer"
  /\ \E k \in 1..(Len(iv.history) - 2) : iv.history[k].type = "end_loop"


\* The stack of a submit of the payload p: the stack after the entries of
\* the history, and the answer to the next question.
SubmitStack(p) ==
  replace_answer(calculate(iv.history, Len(iv.history) + 1, "continue").ts,
                 make_answer(iv.next_question, p, Len(iv.history) + 1))

\* C14: when the transitions of the next question select a question from
\* a template whose localization exists in the template library for the
\* language of the interview, the submit succeeds and that question is the
\* new next question.
C14_FromTemplateNext ==
  [][( /\ Submitted
       /\ iv.state = "ongoing"
       /\ check_active(campaign, now) = "ok"
       /\ reply'.payload # NoPayload
       /\ localization(questions, iv, iv.next_question) # "none"
       /\ answer_compile(questions[iv.next_question].body, reply'.payload) = "ok"
       /\ Selected(SubmitStack(reply'.payload), iv.next_question) # 0
       /\ questions[Selected(SubmitStack(reply'.payload), iv.next_question)].type
            = "from_template"
       /\ iv.language \in TemplateLanguages ) =>
       /\ reply'.err = "ok"
       /\ iv'.next_question = Selected(SubmitStack(reply'.payload), iv.next_question)]_vars


(***************************************************************************)
(* Interviews whose answers are submitted with every payload a client may  *)
(* send, the input without text included.                                  *)
(***************************************************************************)
\* The input that holds no text; the operand expression of a loop extracts
\* no array from it.
EmptyInput == Payload(-1, FALSE, <<>>)

AnswerSources == {Src2, Src4}

InitAnswer ==
  /\ \E src \in AnswerSources, ub \in Undefined :
       \E c \in {compile(src, ub)} :
         /\ c.err = "ok"
         /\ check_orphans(c.questions) = 0
         /\ questions = c.questions
  /\ campaign \in Campaigns
  /\ now = 0
  /\ iv = make_interview
  /\ reply = [op |-> "none", err |-> "ok", index |-> 0, payload |-> NoPayload,
              trace |-> <<>>, memory |-> make_interview]
  /\ questionnaire = Published(questions).questionnaire
  /\ questionnaire_localization = Published(questions).questionnaire_localization

SubmitAnswer ==
  /\ Len(iv.history) < MaxHistory
  /\ \E p \in PayloadsFor(NextBody) \cup {EmptyInput}, ub \in Undefined :
       \E out \in {answer_srv(questions, campaign, iv, now, p, ub)} :
         /\ iv' = Commit(iv, out)
         /\ reply' = Request("submit", 0, p, out)
         /\ UNCHANGED <<questions, campaign, now, questionnaire, questionnaire_localization>>

NextAnswer == Start \/ SubmitAnswer \/ Tick

SpecAnswer == InitAnswer /\ [][NextAnswer]_vars

\* C15: a submit whose answer violates the body of the next question (a
\* select without a choice or with an option index outside the options, an
\* input without text, no input question of the questionnaires being
\* optional) fails, appends no entry and leaves the next question.
C15_InvalidAnswerRejected ==
  [][( /\ Submitted
       /\ iv.state = "ongoing"
       /\ \/ /\ questions[iv.next_question].body = "select"
             /\ (reply'.payload.c < 0 \/ reply'.payload.c >= NOptions)
          \/ /\ questions[iv.next_question].body = "input"
             /\ reply'.payload = EmptyInput ) =>
       /\ reply'.err # "ok"
       /\ iv'.history = iv.history
       /\ iv'.next_question = iv.next_question]_vars


(***************************************************************************)
(* Interviews of campaigns with every combination of an immediate or a     *)
(* later start and an unlimited or a limited duration.                     *)
(***************************************************************************)
WindowCampaigns == {make_campaign(s, d) : s \in 0..1, d \in 0..1}

WindowSources == {Src1, Src2}

InitWindow ==
  /\ \E src \in WindowSources, ub \in Undefined :
       \E c \in {compile(src, ub)} :
         /\ c.err = "ok"
         /\ check_orphans(c.questions) = 0
         /\ questions = c.questions
  /\ campaign \in WindowCampaigns
  /\ now = 0
  /\ iv = make_interview
  /\ reply = [op |-> "none", err |-> "ok", index |-> 0, payload |-> NoPayload,
              trace |-> <<>>, memory |-> make_interview]
  /\ questionnaire = Published(questions).questionnaire
  /\ questionnaire_localization = Published(questions).questionnaire_localization

NextWindow == Start \/ Submit \/ Revise \/ Tick

SpecWindow == InitWindow /\ [][NextWindow]_vars

\* A start, or a submit or revise with an answer on a started interview:
\* the calls whose first failure can only be that of the campaign.
WindowCall ==
  \/ Started
  \/ /\ Submitted \/ Revised
     /\ reply'.payload # NoPayload
     /\ iv.state # "initiated"

\* C16: start, submit and revise fail with campaign not yet active before the
\* campaign start, and with campaign expired after start + duration when the
\* duration is not 0, whatever the start, 0 included; the interview is
\* unchanged by the failed call.
C16_CampaignWindow ==
  [][WindowCall =>
       /\ now < campaign.start =>
            reply'.err = "campaign_is_not_yet_active" /\ iv' = iv
       /\ (campaign.duration # 0 /\ now > campaign.start + campaign.duration) =>
            reply'.err = "campaign_expired" /\ iv' = iv]_vars


(***************************************************************************)
(* Upload of source questionnaires: a questionnaire without explicit       *)
(* transitions in which the transitions of one question are replaced by a  *)
(* list of at most MaxTransitions transitions, with condition, with code   *)
(* or without any, to any question or to a label that does not exist.      *)
(***************************************************************************)
MaxTransitions == 2

\* Two selects and a final message.
Src9 == <<SSelect(<<>>), SSelect(<<>>), SMessage(<<>>)>>

\* The last question is not a message.
Src10 == <<SSelect(<<>>), SSelect(<<>>)>>

\* A loop without a body nested in a loop.
Src11 ==
  <<SInput(<<>>),
    SBeginLoop(1, <<>>),
    SInput(<<>>),
    SBeginLoop(3, <<>>),
    SEndLoop(<<>>),
    SEndLoop(<<>>),
    SMessage(<<>>)>>

Skeletons == {Src9, Src10, Src11}

\* The source transitions to the questions of a questionnaire of n questions
\* and to the label n + 1, which no question has.
SourceTransitions(n) ==
  {ST(f[1], f[2], d) :
     f \in {<<NoExpr, NoExpr>>, <<Test(1, 0), NoExpr>>, <<NoExpr, Test(1, 0)>>},
     d \in 1..(n + 1)}

\* The lists of at most MaxTransitions source transitions whose transitions
\* before the last are the same.
TransitionLists(n) ==
  {<<>>} \cup
  {[k \in 1..m |-> IF k < m THEN t[1] ELSE t[2]] :
     t \in SourceTransitions(n) \X SourceTransitions(n), m \in 1..MaxTransitions}

UploadSources ==
  UNION {{[s EXCEPT ![i].transitions = ts] :
            i \in 1..Len(s), ts \in TransitionLists(Len(s))} : s \in Skeletons}

InitUpload ==
  /\ questions = <<>>
  /\ campaign = make_campaign(0, 0)
  /\ now = 0
  /\ iv = make_interview
  /\ questionnaire = make_questionnaire
  /\ questionnaire_localization = make_questionnaire_localization
  /\ \E src \in UploadSources :
       reply = [op |-> "none", err |-> "ok", source |-> src, infos |-> <<>>]

\* Service questionnaire_upload.
Upload ==
  /\ reply.op = "none"
  /\ \E ub \in Undefined :
       \E c \in {compile(reply.source, ub)} :
         /\ questions' = c.questions
         /\ reply' = [op |-> "upload", err |-> c.err, source |-> reply.source,
                      infos |-> c.infos]
         /\ questionnaire' =
              IF c.err = "ok" THEN Compiled(c.questions).questionnaire
              ELSE questionnaire
         /\ questionnaire_localization' =
              IF c.err = "ok"
              THEN Compiled(c.questions).questionnaire_localization
              ELSE questionnaire_localization
         /\ UNCHANGED <<campaign, now, iv>>

NextUpload == Upload

SpecUpload == InitUpload /\ [][NextUpload]_vars


\* The questions of the uploaded source whose transitions are explicit.
Explicit == {i \in 1..Len(reply.source) : reply.source[i].transitions # <<>>}

\* C17: in a compiled questionnaire the destination of every transition,
\* explicit or synthesized, is a question of the questionnaire that comes
\* after the source of the transition; a source with an explicit transition
\* to the question itself, to a previous question or to a label that does
\* not exist is rejected, with the error of that case when the transition
\* is the only one of the source.
C17_TransitionsAhead ==
  reply.op = "upload" =>
    /\ reply.err = "ok" =>
         \A i \in 1..Len(questions) :
           \A k \in 1..Len(questions[i].transitions) :
             questions[i].transitions[k].destination \in (i + 1)..Len(questions)
    /\ \A i \in Explicit :
         /\ (\E k \in 1..Len(reply.source[i].transitions) :
               reply.source[i].transitions[k].destination
                 \notin (i + 1)..Len(reply.source)) => reply.err # "ok"
         /\ \A d \in 1..(Len(reply.source) + 1) :
              (Explicit = {i} /\ reply.source[i].transitions = <<STo(d)>>) =>
                /\ d > Len(reply.source) =>
                     reply.err = "source_question_transition_does_not_exist"
                /\ d = i => reply.err = "source_question_transitions_to_itself"
                /\ d < i =>
                     reply.err = "source_question_transitions_to_previous_question"


\* A source transition without condition and without code.
CatchAll(t) == empty(t.condition) /\ empty(t.code)

\* C18: a source whose question has explicit transitions is rejected when
\* the last of them is not a catch-all (transitions lack catch-all, when no
\* check comes before) and when one that is not the last is a catch-all
\* (catch-all not last, when it is the first of the list).
C18_CatchAllLast ==
  reply.op = "upload" =>
    \A i \in Explicit :
      LET ts == reply.source[i].transitions
          n == Len(ts)
      IN /\ ~CatchAll(ts[n]) =>
              /\ reply.err # "ok"
              /\ Explicit = {i} =>
                   reply.err = "source_question_transitions_lack_catch_all"
         /\ (CatchAll(ts[n]) /\ \E k \in 1..(n - 1) : CatchAll(ts[k])) =>
              /\ reply.err # "ok"
              /\ (Explicit = {i} /\ CatchAll(ts[1])) =>
                   reply.err = "source_question_transition_catch_all_is_not_last"


\* The transitions of the compiled questionnaire, as pairs of a question and
\* a destination that is a question.
CompiledTransitions ==
  {t \in (1..Len(questions)) \X (1..Len(questions)) :
     \E k \in 1..Len(questions[t[1]].transitions) :
       questions[t[1]].transitions[k].destination = t[2]}

ParentBeginLoop(i) == get_parent_begin_loop(reply.infos[i])

\* The three cases the loops leave to a transition from q to d: the same
\* parent begin loop, the end loop of the parent begin loop of q, and from a
\* begin loop to its end loop.
SameLoop(q, d) ==
  \/ ParentBeginLoop(q) = ParentBeginLoop(d)
  \/ /\ questions[d].type = "end_loop"
     /\ ParentBeginLoop(q) # 0
     /\ reply.infos[d].mbl = ParentBeginLoop(q)
  \/ /\ questions[q].type = "begin_loop"
     /\ questions[d].type = "end_loop"
     /\ reply.infos[d].mbl = q

\* C19 as stated: every transition of a compiled questionnaire is in one of
\* the three cases.
C19_Original ==
  (reply.op = "upload" /\ reply.err = "ok") =>
    \A t \in CompiledTransitions : SameLoop(t[1], t[2])

\* C19: every transition of a compiled questionnaire, explicit or
\* synthesized, is in one of the three cases or goes from a begin loop to a
\* question whose parent begin loop it is.
C19_LoopTransitions ==
  (reply.op = "upload" /\ reply.err = "ok") =>
    \A t \in CompiledTransitions :
      \/ SameLoop(t[1], t[2])
      \/ /\ questions[t[1]].type = "begin_loop"
         /\ ParentBeginLoop(t[2]) = t[1]

\* A questionnaire with nested loops is compiled, in which a begin loop has
\* an explicit transition to a question of its loop and another question an
\* explicit conditional transition.
C19_Witness ==
  /\ reply.op = "upload"
  /\ reply.err = "ok"
  /\ \E i \in 1..Len(questions) :
       questions[i].type = "begin_loop" /\ ParentBeginLoop(i) # 0
  /\ \E i \in Explicit :
       /\ questions[i].type = "begin_loop"
       /\ Len(questions[i].transitions) = 2
       /\ \E k \in 1..2 :
            /\ ParentBeginLoop(questions[i].transitions[k].destination) = i
            /\ questions[questions[i].transitions[k].destination].type = "with_body"
       /\ \E k \in 1..2 :
            /\ questions[questions[i].transitions[k].destination].type = "end_loop"


\* C20: a source in which a question of a loop, a regular question or the
\* end loop of an inner loop, has for only explicit transition a catch-all
\* to the end loop that matches its parent begin loop is compiled.
C20_ToEndLoopOfParent ==
  reply.op = "upload" =>
    \A i \in Explicit, d \in 1..Len(reply.source) :
      ( /\ Explicit = {i}
        /\ reply.source[Len(reply.source)].type = "message"
        /\ reply.source[i].transitions = <<STo(d)>>
        /\ reply.source[i].type # "begin_loop"
        /\ reply.source[d].type = "end_loop"
        /\ ParentBeginLoop(i) # 0
        /\ reply.infos[d].mbl = ParentBeginLoop(i) ) => reply.err = "ok"


(***************************************************************************)
(* Upload of source questionnaires with any sequence of inputs, begin      *)
(* loops and end loops, followed by a final message.                       *)
(***************************************************************************)
\* Number of questions before the final message.
MaxQuestions == 7

\* Question i of a sequence of types: a begin loop iterates over the answer
\* to the question before it.
TypedQuestion(types, i) ==
  IF types[i] = "begin_loop" THEN SBeginLoop(i - 1, <<>>)
  ELSE IF types[i] = "end_loop" THEN SEndLoop(<<>>)
  ELSE SInput(<<>>)

BracketSources ==
  {Append([i \in 1..Len(types) |-> TypedQuestion(types, i)], SMessage(<<>>)) :
     types \in UNION {[1..m -> {"input", "begin_loop", "end_loop"}] :
                        m \in 0..MaxQuestions}}

InitNest ==
  /\ questions = <<>>
  /\ campaign = make_campaign(0, 0)
  /\ now = 0
  /\ iv = make_interview
  /\ questionnaire = make_questionnaire
  /\ questionnaire_localization = make_questionnaire_localization
  /\ \E src \in BracketSources :
       reply = [op |-> "none", err |-> "ok", source |-> src, infos |-> <<>>]

NextNest == Upload

SpecNest == InitNest /\ [][NextNest]_vars

\* Begin loops less end loops among the first i questions of the source.
Depth(i) ==
  Cardinality({j \in 1..i : reply.source[j].type = "begin_loop"})
    - Cardinality({j \in 1..i : reply.source[j].type = "end_loop"})

\* The end loop that closes begin loop j: the first end loop after j that
\* brings the depth back under that of j; 0 if there is none.
ClosingEndLoop(j) ==
  IF \E e \in (j + 1)..Len(reply.source) : Depth(e) < Depth(j)
  THEN CHOOSE e \in (j + 1)..Len(reply.source) :
         /\ Depth(e) < Depth(j)
         /\ \A f \in (j + 1)..(e - 1) : Depth(f) >= Depth(j)
  ELSE 0

\* The begin loops that enclose question i.
Enclosing(i) ==
  {j \in 1..(i - 1) : reply.source[j].type = "begin_loop" /\ ClosingEndLoop(j) > i}

\* The source is rejected before the loops are looked at: a begin loop
\* iterates over no question or over a loop question.
OperandDefect(i) ==
  /\ reply.source[i].type = "begin_loop"
  /\ \/ reply.source[i].question \notin 1..(i - 1)
     \/ reply.source[reply.source[i].question].type \in {"begin_loop", "end_loop"}

\* C21: a source compiles only if its begin loops and end loops are well
\* matched; the first end loop met with no loop open fails with loop not
\* balanced and a loop left open fails with loop not closed (when no begin
\* loop before fails on its operand); in a compiled questionnaire the nest
\* of a question is the list of the begin loops that enclose it and the
\* begin loop matched with an end loop is the one it closes.
C21_WellMatched ==
  reply.op = "upload" =>
    /\ reply.err = "ok" =>
         /\ \A i \in 1..Len(reply.source) : Depth(i) >= 0
         /\ Depth(Len(reply.source)) = 0
         /\ \A i \in 1..Len(reply.source) :
              /\ {reply.infos[i].nest[k] : k \in 1..Len(reply.infos[i].nest)}
                   = Enclosing(i)
              /\ Len(reply.infos[i].nest) = Cardinality(Enclosing(i))
              /\ \A k \in 1..(Len(reply.infos[i].nest) - 1) :
                   reply.infos[i].nest[k] < reply.infos[i].nest[k + 1]
              /\ reply.source[i].type = "end_loop" =>
                   /\ reply.infos[i].mbl # 0
                   /\ ClosingEndLoop(reply.infos[i].mbl) = i
              /\ reply.source[i].type # "end_loop" => reply.infos[i].mbl = 0
    /\ \A i \in 1..Len(reply.source) :
         (Depth(i) < 0 /\ \A j \in 1..(i - 1) : Depth(j) >= 0) =>
           /\ reply.err # "ok"
           /\ (\A j \in 1..i : ~OperandDefect(j)) =>
                reply.err = "question_loop_is_not_balanced"
    /\ ((\A i \in 1..Len(reply.source) : Depth(i) >= 0)
          /\ Depth(Len(reply.source)) > 0) =>
         /\ reply.err # "ok"
         /\ (\A j \in 1..Len(reply.source) : ~OperandDefect(j)) =>
              reply.err = "question_loop_is_not_closed"

\* A questionnaire with a question in a loop in a loop is compiled.
C21_Witness ==
  /\ reply.op = "upload"
  /\ reply.err = "ok"
  /\ \E i \in 1..Len(reply.source) : Cardinality(Enclosing(i)) = 2
  /\ Cardinality({i \in 1..Len(reply.source) :
                    reply.source[i].type = "end_loop"}) >= 2


(***************************************************************************)
(* Upload of source questionnaires with loops in which one question has a  *)
(* text function or a conditional transition whose parameters are any      *)
(* questions or a label that does not exist.                               *)
(***************************************************************************)
\* Number of parameters of a text function.
MaxParameters == 2

\* The labels given as parameters: those of the questions of a
\* questionnaire of n questions and n + 1, which no question has.
ParameterLists(n) == UNION {[1..m -> 1..(n + 1)] : m \in 1..MaxParameters}

\* The questions that have a text.
Inline(s) == {i \in 1..Len(s) : s[i].type \in {"message", "input", "select"}}

\* A loop with two questions.
Src12 ==
  <<SInput(<<>>),
    SBeginLoop(1, <<>>),
    SInput(<<>>),
    SSelect(<<>>),
    SEndLoop(<<>>),
    SMessage(<<>>)>>

FunctionSources ==
  {[Src12 EXCEPT ![i].text = <<params>>] :
     i \in Inline(Src12), params \in ParameterLists(Len(Src12))}
  \cup
  {[Src12 EXCEPT ![i].transitions = <<ST(Test(p, 0), NoExpr, i + 1), STo(i + 1)>>] :
     i \in 1..(Len(Src12) - 1), p \in 1..(Len(Src12) + 1)}

InitFunctions ==
  /\ questions = <<>>
  /\ campaign = make_campaign(0, 0)
  /\ now = 0
  /\ iv = make_interview
  /\ questionnaire = make_questionnaire
  /\ questionnaire_localization = make_questionnaire_localization
  /\ \E src \in FunctionSources :
       reply = [op |-> "none", err |-> "ok", source |-> src, infos |-> <<>>]

NextFunctions == Upload

SpecFunctions == InitFunctions /\ [][NextFunctions]_vars


\* What the claim requires of parameter par of a function of question i:
\* the error of the first requirement it fails, "ok" if it meets them all.
ParameterDefect(i, par) ==
  IF par \notin 1..Len(reply.source) THEN "function_parameter_does_not_exist"
  ELSE IF par = i THEN "function_parameter_refers_to_self"
  ELSE IF par > i THEN "function_parameter_refers_to_subsequent_question"
  ELSE IF Enclosing(par) # Enclosing(i)
  THEN "function_parameter_refers_to_question_with_different_loop_nest"
  ELSE "ok"

\* The text functions and the transitions of the compiled questionnaire, as
\* pairs of a question and a parameter.
TextParameters ==
  {x \in (1..Len(questions)) \X (1..(Len(questions) + 1)) :
     \E f \in 1..Len(questions[x[1]].text_functions) :
       \E j \in 1..Len(questions[x[1]].text_functions[f]) :
         questions[x[1]].text_functions[f][j] = x[2]}

TransitionParameters ==
  {x \in (1..Len(questions)) \X (1..(Len(questions) + 1)) :
     \E k \in 1..Len(questions[x[1]].transitions) :
       \E j \in 1..Len(questions[x[1]].transitions[k].parameters) :
         questions[x[1]].transitions[k].parameters[j] = x[2]}

\* C22 as stated: the parameters of the text functions and of the transition
\* conditions of a compiled questionnaire are earlier questions of the same
\* loop nest.
C22_Original ==
  (reply.op = "upload" /\ reply.err = "ok") =>
    \A x \in TextParameters \cup TransitionParameters :
      ParameterDefect(x[1], x[2]) = "ok"

\* C22: in a compiled questionnaire the parameters of the text functions are
\* earlier questions of the same loop nest and the parameters of the
\* transition conditions are questions of the questionnaire; a source with a
\* text function one of whose parameters is the question itself, a later
\* question, a question of another nest or a label that does not exist is
\* rejected with the error of its first such parameter, and a source with a
\* transition parameter that does not exist is rejected.
C22_FunctionParameters ==
  reply.op = "upload" =>
    /\ reply.err = "ok" =>
         /\ \A x \in TextParameters : ParameterDefect(x[1], x[2]) = "ok"
         /\ \A x \in TransitionParameters : x[2] \in 1..Len(questions)
    /\ \A i \in 1..Len(reply.source) :
         /\ \A j \in 1..(IF reply.source[i].text = <<>> THEN 0
                         ELSE Len(reply.source[i].text[1])) :
              ( /\ ParameterDefect(i, reply.source[i].text[1][j]) # "ok"
                /\ \A k \in 1..(j - 1) :
                     ParameterDefect(i, reply.source[i].text[1][k]) = "ok" ) =>
                reply.err = ParameterDefect(i, reply.source[i].text[1][j])
         /\ \A k \in 1..Len(reply.source[i].transitions) :
              (\E j \in 1..Len(reply.source[i].transitions[k].parameters) :
                 reply.source[i].transitions[k].parameters[j]
                   \notin 1..Len(reply.source)) =>
                /\ reply.err # "ok"
                /\ reply.source[i + 1].type # "end_loop" =>
                     reply.err = "source_question_argument_does_not_exist"

\* A questionnaire is compiled in which the text of a question of a loop has
\* a function of two parameters.
C22_Witness ==
  /\ reply.op = "upload"
  /\ reply.err = "ok"
  /\ \E i \in 1..Len(questions) :
       /\ reply.infos[i].nest # <<>>
       /\ questions[i].text_functions # <<>>
       /\ Len(questions[i].text_functions[1]) = 2


(***************************************************************************)
(* Upload of source questionnaires with loops whose begin loops iterate    *)
(* over any question or over a label that does not exist.                  *)
(***************************************************************************)
BeginLoops(s) == {i \in 1..Len(s) : s[i].type = "begin_loop"}

OperandSources ==
  UNION {{[i \in 1..Len(s) |->
             IF i \in BeginLoops(s) THEN SBeginLoop(f[i], <<>>) ELSE s[i]] :
            f \in [BeginLoops(s) -> 0..(Len(s) + 1)]} : s \in {Src11, Src12}}

InitOperands ==
  /\ questions = <<>>
  /\ campaign = make_campaign(0, 0)
  /\ now = 0
  /\ iv = make_interview
  /\ questionnaire = make_questionnaire
  /\ questionnaire_localization = make_questionnaire_localization
  /\ \E src \in OperandSources :
       reply = [op |-> "none", err |-> "ok", source |-> src, infos |-> <<>>]

NextOperands == Upload

SpecOperands == InitOperands /\ [][NextOperands]_vars

\* The begin loops of the source that iterate over no earlier question or
\* over a loop question, and those that iterate over a question of another
\* loop nest.
Unanswerable ==
  {i \in BeginLoops(reply.source) :
     \/ reply.source[i].question \notin 1..(i - 1)
     \/ reply.source[reply.source[i].question].type \in {"begin_loop", "end_loop"}}

WrongNest ==
  {i \in BeginLoops(reply.source) \ Unanswerable :
     Enclosing(reply.source[i].question) # Enclosing(i)}

\* C23: in a compiled questionnaire the operand question of a begin loop is
\* an earlier question that is no loop question and has the loop nest of
\* the begin loop; a source with a begin loop that is not so is rejected:
\* with the error of the first begin loop that iterates over no earlier
\* question (unknown question) or over a loop question (unanswerable
\* question), else with that of the operand of another nest.
C23_Operand ==
  reply.op = "upload" =>
    /\ reply.err = "ok" =>
         \A i \in 1..Len(questions) :
           questions[i].type = "begin_loop" =>
             /\ questions[i].operand_question \in 1..(i - 1)
             /\ questions[questions[i].operand_question].type
                  \notin {"begin_loop", "end_loop"}
             /\ Enclosing(questions[i].operand_question) = Enclosing(i)
    /\ \A i \in Unanswerable :
         (\A j \in Unanswerable : i <= j) =>
           reply.err =
             IF reply.source[i].question \notin 1..(i - 1)
             THEN "question_begin_loop_refers_to_unknown_question"
             ELSE "question_begin_loop_refers_to_unanswerable_question"
    /\ (Unanswerable = {} /\ WrongNest # {}) =>
         reply.err = "question_begin_loop_refers_to_question_with_different_loop_nest"

\* A questionnaire is compiled in which a begin loop of a loop iterates over
\* a question of that loop.
C23_Witness ==
  /\ reply.op = "upload"
  /\ reply.err = "ok"
  /\ \E i \in 1..Len(questions) :
       /\ questions[i].type = "begin_loop"
       /\ Enclosing(i) # {}
       /\ Enclosing(questions[i].operand_question) = Enclosing(i)


(***************************************************************************)
(* The library: a questionnaire that has been uploaded, its localization,  *)
(* and the campaign created on it.                                         *)
(***************************************************************************)
\* Questions of a questionnaire, the questions pushed after its upload
\* included.
MaxLibraryQuestions == 5
\* Question localizations of a questionnaire localization.
MaxLocalizations == 5

NoCampaign == [start |-> 0, duration |-> 0, end |-> -1]

\* questionnaire::check
questionnaire_check(q, qs) == IF q.locked THEN 0 ELSE check_orphans(qs)

\* campaign::campaign, called by the service campaign_create: the
\* questionnaire is checked, then locked.
campaign_create(q, qs, s, d) ==
  The({ IF o # 0
        THEN [err |-> "question_is_orphan", label |-> o, questionnaire |-> q,
              campaign |-> NoCampaign]
        ELSE [err |-> "ok", label |-> 0,
              questionnaire |-> [q EXCEPT !.locked = TRUE],
              campaign |-> make_campaign(s, d)]
        : o \in {questionnaire_check(q, qs)} })

push_question_back_mut(q, qs, question) ==
  [err |-> "ok",
   questionnaire |-> [q EXCEPT !.change_count = q.change_count + 1],
   questions |-> Append(qs, question)]

\* questionnaire::push_question_back: check_lock, push, touch.
push_question_back(q, qs, question) ==
  IF q.locked
  THEN [err |-> "questionnaire_is_locked", questionnaire |-> q, questions |-> qs]
  ELSE [err |-> "ok",
        questionnaire |-> [q EXCEPT !.change_count = q.change_count + 1],
        questions |-> Append(qs, question)]

\* questionnaire_localization::push_question_localization_back
push_question_localization_back(ql, label) ==
  [ql EXCEPT !.questions_localizations = Append(ql.questions_localizations, label)]

\* questionnaire_localization::force_check: no question localized twice
\* (dump), every question that supports a localization localized, every
\* question from template localized by the template library.
force_check(ql, qs, language) ==
  IF \E j, k \in 1..Len(ql.questions_localizations) :
       j # k /\ ql.questions_localizations[j] = ql.questions_localizations[k]
  THEN "question_localization_is_duplicate"
  ELSE IF \E i \in 1..Len(qs) :
            /\ \A k \in 1..Len(ql.questions_localizations) :
                 ql.questions_localizations[k] # i
            /\ supports_localization(qs[i])
  THEN "question_localization_does_not_exist"
  ELSE IF \E i \in 1..Len(qs) :
            /\ \A k \in 1..Len(ql.questions_localizations) :
                 ql.questions_localizations[k] # i
            /\ qs[i].type = "from_template"
            /\ language \notin TemplateLanguages
  THEN "question_localization_for_template_does_not_exist"
  ELSE "ok"

questionnaire_localization_check_mut(ql, q, qs, language) ==
  [err |-> force_check(ql, qs, language), validated |-> TRUE,
   questionnaire_localization |->
     [ql EXCEPT !.questionnaire_change_count = q.change_count]]

\* questionnaire_localization::check
questionnaire_localization_check(ql, q, qs, language) ==
  IF ql.questionnaire_change_count = q.change_count
  THEN [err |-> "ok", validated |-> FALSE, questionnaire_localization |-> ql]
  ELSE The({ IF e # "ok"
             THEN [err |-> e, validated |-> TRUE, questionnaire_localization |-> ql]
             ELSE [err |-> "ok", validated |-> TRUE,
                   questionnaire_localization |->
                     [ql EXCEPT !.questionnaire_change_count = q.change_count]]
             : e \in {force_check(ql, qs, language)} })

\* source_questionnaire_localization::compile, called by the service
\* questionnaire_localize: labels is the list of the labels of the question
\* localizations of the source.
questionnaire_localize(ql, q, qs, labels, language) ==
  IF q.locked
  THEN [err |-> "questionnaire_is_locked", validated |-> FALSE,
        questionnaire_localization |-> ql]
  ELSE IF \E k \in 1..Len(labels) : labels[k] \notin 1..Len(qs)
  THEN [err |-> "question_label_does_not_exist", validated |-> FALSE,
        questionnaire_localization |-> ql]
  ELSE The({ IF r.err # "ok"
             THEN [err |-> r.err, validated |-> TRUE,
                   questionnaire_localization |-> ql]
             ELSE r
             : r \in {questionnaire_localization_check(
                        [questionnaire_change_count |-> 0,
                         questions_localizations |-> labels], q, qs, language)} })

\* Three selects and a final message.
Src13 == <<SSelect(<<>>), SSelect(<<>>), SSelect(<<>>), SMessage(<<>>)>>

\* The lists of transitions of question i of Src13 that compile.
Forward(i) ==
  {<<>>} \cup {<<STo(d)>> : d \in (i + 1)..4}
         \cup {<<ST(Test(1, 0), NoExpr, t[1]), STo(t[2])>> :
                 t \in ((i + 1)..4) \X ((i + 1)..4)}

LibrarySources ==
  {[Src13 EXCEPT ![1].transitions = t[1], ![2].transitions = t[2]] :
     t \in Forward(1) \X Forward(2)}

\* The lists of labels of the source questionnaire localizations: complete,
\* without the last question, with a question twice, with a label that no
\* question has.
LabelLists(qs) ==
  {Localized(qs, 1), Front(Localized(qs, 1)), Localized(qs, 1) \o <<1>>,
   Localized(qs, 1) \o <<Len(qs) + 1>>}

LibraryReply(op, err, label, validated) ==
  [op |-> op, err |-> err, label |-> label, validated |-> validated]

InitLibrary ==
  /\ \E src \in LibrarySources, ub \in Undefined :
       \E c \in {compile(src, ub)} :
         /\ c.err = "ok"
         /\ questions = c.questions
  /\ campaign = NoCampaign
  /\ now = 0
  /\ iv = make_interview
  /\ reply = LibraryReply("none", "ok", 0, FALSE)
  /\ questionnaire = Compiled(questions).questionnaire
  /\ questionnaire_localization = Compiled(questions).questionnaire_localization

\* Service campaign_create.
CampaignCreate ==
  \E s \in {0}, d \in {0} :
    \E r \in {campaign_create(questionnaire, questions, s, d)} :
      /\ questionnaire' = r.questionnaire
      /\ campaign' = IF r.err = "ok" THEN r.campaign ELSE campaign
      /\ reply' = LibraryReply("campaign_create", r.err, r.label, FALSE)
      /\ UNCHANGED <<questions, now, iv, questionnaire_localization>>

\* A final message is pushed at the back of the questionnaire.
PushQuestionBack ==
  /\ Len(questions) < MaxLibraryQuestions
  /\ \E r \in {push_question_back(questionnaire, questions,
                                  make_question(SMessage(<<>>)))} :
       /\ questionnaire' = r.questionnaire
       /\ questions' = r.questions
       /\ reply' = LibraryReply("push_question_back", r.err, 0, FALSE)
       /\ UNCHANGED <<campaign, now, iv, questionnaire_localization>>

\* A question localization is pushed at the back of the localization.
PushQuestionLocalizationBack ==
  /\ Len(questionnaire_localization.questions_localizations) < MaxLocalizations
  /\ \E label \in 1..Len(questions) :
       /\ supports_localization(questions[label])
       /\ questionnaire_localization' =
            push_question_localization_back(questionnaire_localization, label)
       /\ reply' = LibraryReply("push_question_localization_back", "ok", 0, FALSE)
       /\ UNCHANGED <<questions, campaign, now, iv, questionnaire>>

\* The check of the localization made when an interview starts and when the
\* questionnaire is downloaded.
Check ==
  \E language \in LocalizedLanguages :
    \E r \in {questionnaire_localization_check(questionnaire_localization,
                                               questionnaire, questions, language)} :
      /\ questionnaire_localization' = r.questionnaire_localization
      /\ reply' = LibraryReply("check", r.err, 0, r.validated)
      /\ UNCHANGED <<questions, campaign, now, iv, questionnaire>>

\* Service questionnaire_localize.
QuestionnaireLocalize ==
  \E labels \in LabelLists(questions), language \in LocalizedLanguages :
    \E r \in {questionnaire_localize(questionnaire_localization, questionnaire,
                                     questions, labels, language)} :
      /\ questionnaire_localization' = r.questionnaire_localization
      /\ reply' = LibraryReply("questionnaire_localize", r.err, 0, r.validated)
      /\ UNCHANGED <<questions, campaign, now, iv, questionnaire>>

NextLibrary ==
  \/ CampaignCreate
  \/ PushQuestionBack
  \/ PushQuestionLocalizationBack
  \/ Check
  \/ QuestionnaireLocalize

SpecLibrary == InitLibrary /\ [][NextLibrary]_vars


\* The questions, the first excepted, that are the destination of no
\* transition of another question.
Orphans ==
  {i \in 2..Len(questions) :
     \A j \in (1..Len(questions)) \ {i} :
       \A k \in 1..Len(questions[j].transitions) :
         questions[j].transitions[k].destination # i}

\* C24: a campaign created on an unlocked questionnaire is created if and
\* only if the questionnaire has no orphan: every question but the first is
\* the destination of a transition of another question.  Otherwise the
\* creation fails with the error question_is_orphan, which holds the label of
\* the first orphan in the order of the questions, no campaign is created and
\* the questionnaire stays unlocked.
C24_CampaignCreation ==
  [][(reply'.op = "campaign_create" /\ ~questionnaire.locked) =>
       /\ (reply'.err = "ok") <=> (Orphans = {})
       /\ reply'.err = "ok" => campaign' = make_campaign(0, 0)
       /\ reply'.err # "ok" =>
            /\ reply'.err = "question_is_orphan"
            /\ reply'.label \in Orphans
            /\ \A i \in Orphans : reply'.label <= i
            /\ ~questionnaire'.locked
            /\ questionnaire' = questionnaire
            /\ campaign' = campaign]_vars

\* A campaign has been refused on a questionnaire with two orphans, the
\* first of which is named.
C24_Witness ==
  /\ reply.op = "campaign_create"
  /\ reply.err = "question_is_orphan"
  /\ Cardinality(Orphans) >= 2
  /\ ~questionnaire.locked

\* A campaign has been created.
C24_WitnessCreated ==
  /\ reply.op = "campaign_create"
  /\ reply.err = "ok"
  /\ campaign = make_campaign(0, 0)
  /\ Orphans = {}


\* C25: a campaign that is created locks its questionnaire; a locked
\* questionnaire never becomes unlocked; pushing a question on a locked
\* questionnaire fails with the error questionnaire_is_locked and leaves the
\* questions and the change count as they were; uploading a localization of a
\* locked questionnaire fails with the error questionnaire_is_locked and
\* leaves the localization as it was.
C25_LockedIsImmutable ==
  [][/\ (reply'.op = "campaign_create" /\ reply'.err = "ok") => questionnaire'.locked
     /\ questionnaire.locked => questionnaire'.locked
     /\ (reply'.op = "push_question_back" /\ questionnaire.locked) =>
          /\ reply'.err = "questionnaire_is_locked"
          /\ questions' = questions
          /\ questionnaire'.change_count = questionnaire.change_count
     /\ (reply'.op = "questionnaire_localize" /\ questionnaire.locked) =>
          /\ reply'.err = "questionnaire_is_locked"
          /\ questionnaire_localization' = questionnaire_localization]_vars

\* A question has been pushed on a locked questionnaire, and refused.
C25_Witness ==
  /\ reply.op = "push_question_back"
  /\ reply.err = "questionnaire_is_locked"
  /\ questionnaire.locked
  /\ campaign = make_campaign(0, 0)
  /\ Len(questions) < MaxLibraryQuestions


\* C26: the change count that a questionnaire localization records changes
\* only in a check that validated the localization and succeeded, and becomes
\* the change count of the questionnaire; a check made while the two counts
\* are equal validates nothing, succeeds and changes nothing; a change of the
\* list of the questions increases the change count of the questionnaire,
\* which the recorded count never exceeds, and a check made while the counts
\* differ validates; a check that fails leaves the localization as it was.
C26_LazyCheck ==
  [][/\ questionnaire_localization'.questionnaire_change_count #
          questionnaire_localization.questionnaire_change_count =>
          /\ reply'.op \in {"check", "questionnaire_localize"}
          /\ reply'.validated
          /\ reply'.err = "ok"
          /\ questionnaire_localization'.questionnaire_change_count =
               questionnaire.change_count
     /\ (reply'.op = "check" /\ questionnaire_localization.questionnaire_change_count =
                                  questionnaire.change_count) =>
          /\ ~reply'.validated
          /\ reply'.err = "ok"
          /\ questionnaire_localization' = questionnaire_localization
     /\ questions' # questions =>
          questionnaire'.change_count > questionnaire.change_count
     /\ questionnaire_localization.questionnaire_change_count <=
          questionnaire.change_count
     /\ (reply'.op = "check" /\ questionnaire_localization.questionnaire_change_count #
                                  questionnaire.change_count) =>
          /\ reply'.validated
          /\ reply'.err = force_check(questionnaire_localization, questions, 1)
     /\ (reply'.op = "check" /\ reply'.err # "ok") =>
          questionnaire_localization' = questionnaire_localization]_vars

\* A check has validated nothing, the counts being equal, of a localization
\* that a validation would refuse.
C26_Witness ==
  /\ reply.op = "check"
  /\ ~reply.validated
  /\ questionnaire_localization.questionnaire_change_count = questionnaire.change_count
  /\ force_check(questionnaire_localization, questions, 1) # "ok"

\* A check has failed after a question was pushed on a questionnaire whose
\* localization had been checked.
C26_WitnessFailed ==
  /\ reply.op = "check"
  /\ reply.validated
  /\ reply.err = "question_localization_does_not_exist"
  /\ questionnaire_localization.questionnaire_change_count > 0
  /\ questionnaire_localization.questionnaire_change_count < questionnaire.change_count


(***************************************************************************)
(* Download of a questionnaire that was uploaded: the source questionnaire *)
(* built from the questionnaire and its localization.                      *)
(***************************************************************************)
\* source_transition::source_transition(const transition_r&): the condition
\* is left empty, the code is the code of the function of the transition.
make_source_transition(t) ==
  [condition |-> NoExpr, code |-> t.condition, destination |-> t.destination,
   parameters |-> t.parameters]

\* question::add_transitions_to
add_transitions_to(q) ==
  [k \in 1..Len(q.transitions) |-> make_source_transition(q.transitions[k])]

\* make_source_question: of the body of the question localization for a
\* message, an input and a select, which leave the transitions of the source
\* question empty; of template_question_localization for a question from
\* template, which adds the transitions; of question_begin_loop and
\* question_end_loop, which leave them empty.
make_source_question(q) ==
  IF q.type = "with_body" THEN SQ(q.body, <<>>, 0, q.text_functions)
  ELSE IF q.type = "from_template" THEN STemplate(add_transitions_to(q))
  ELSE IF q.type = "begin_loop" THEN SBeginLoop(q.operand_question, <<>>)
  ELSE SEndLoop(<<>>)

\* source_questionnaire::source_questionnaire(qq, qql), after the check of
\* the localization.
decompile(qs) == [i \in 1..Len(qs) |-> make_source_question(qs[i])]

\* A question from template, a select and a final message.
Src14 == <<STemplate(<<>>), SSelect(<<>>), SMessage(<<>>)>>

DownloadSources ==
  UNION {{[s EXCEPT ![i].transitions = ts] :
            i \in 1..Len(s), ts \in TransitionLists(Len(s))} : s \in {Src9, Src11, Src14}}

InitDownload ==
  /\ questions = <<>>
  /\ campaign = make_campaign(0, 0)
  /\ now = 0
  /\ iv = make_interview
  /\ questionnaire = make_questionnaire
  /\ questionnaire_localization = make_questionnaire_localization
  /\ \E src \in DownloadSources :
       reply = [op |-> "none", err |-> "ok", source |-> src, infos |-> <<>>]

\* Service questionnaire_download, of a questionnaire that was uploaded.
Download ==
  /\ reply.op = "upload"
  /\ reply.err = "ok"
  /\ \E language \in LocalizedLanguages :
       \E r \in {questionnaire_localization_check(questionnaire_localization,
                                                  questionnaire, questions, language)} :
         /\ questionnaire_localization' = r.questionnaire_localization
         /\ reply' = [op |-> "download", err |-> r.err, source |-> reply.source,
                      infos |-> reply.infos,
                      download |-> IF r.err = "ok" THEN decompile(questions) ELSE <<>>]
         /\ UNCHANGED <<questions, campaign, now, iv, questionnaire>>

NextDownload == Upload \/ Download

SpecDownload == InitDownload /\ [][NextDownload]_vars

\* The transitions of question i of a source, normalized: a question that
\* cannot be final and has no transition goes to the next question, and the
\* condition code of a transition is its condition if it has one, its code
\* otherwise.
NormalTransitions(s, i) ==
  IF s[i].transitions = <<>>
  THEN IF can_be_final(make_question(s[i])) THEN <<>>
       ELSE <<[code |-> NoExpr, parameters |-> <<>>, destination |-> i + 1]>>
  ELSE [k \in 1..Len(s[i].transitions) |->
          [code |-> IF ~empty(s[i].transitions[k].condition)
                    THEN s[i].transitions[k].condition
                    ELSE s[i].transitions[k].code,
           parameters |-> s[i].transitions[k].parameters,
           destination |-> s[i].transitions[k].destination]]

\* C27: the source questionnaire downloaded from a questionnaire that was
\* compiled from a source has the questions of the source, in the same
\* order, with the same types, the same questions to iterate over, the same
\* text functions and, up to normalization, the same transitions in the same
\* order with the same destinations, parameters and condition code.
C27_RoundTrip ==
  (reply.op = "download" /\ reply.err = "ok") =>
    /\ Len(reply.download) = Len(reply.source)
    /\ \A i \in 1..Len(reply.source) :
         /\ reply.download[i].type = reply.source[i].type
         /\ reply.download[i].question = reply.source[i].question
         /\ reply.download[i].text = reply.source[i].text
         /\ NormalTransitions(reply.download, i) = NormalTransitions(reply.source, i)


(***************************************************************************)
(* Interviews whose answers are revised: of a questionnaire with a text    *)
(* calculated from the first answer, of a questionnaire with a branch and  *)
(* such a text, and of a questionnaire with a loop over the first answer.  *)
(***************************************************************************)
\* The text of the third question is calculated from the first answer.
Src15 ==
  <<SInput(<<>>),
    SInput(<<>>),
    SQ("select", <<>>, 0, <<(<<1>>)>>),
    SSelect(<<>>),
    SMessage(<<>>)>>

ReviseSources == {Src2, Src4, Src15}

InitRevise ==
  /\ \E src \in ReviseSources, ub \in Undefined :
       \E c \in {compile(src, ub)} :
         /\ c.err = "ok"
         /\ check_orphans(c.questions) = 0
         /\ questions = c.questions
  /\ campaign = make_campaign(0, 0)
  /\ now = 0
  /\ iv = make_interview
  /\ reply = [op |-> "none", err |-> "ok", index |-> 0, payload |-> NoPayload,
              trace |-> <<>>, memory |-> make_interview]
  /\ questionnaire = Published(questions).questionnaire
  /\ questionnaire_localization = Published(questions).questionnaire_localization

NextRevise == Start \/ Submit \/ Revise

SpecRevise == InitRevise /\ [][NextRevise]_vars

(***************************************************************************)
(* The walk of a revision, told from the histories: h is the history       *)
(* before the revision of the answer of its entry pos by the answer na.    *)
(***************************************************************************)
\* The history in which the answer is replaced.
RevisedHistory(h, pos, na) == [h EXCEPT ![pos] = entry_answer(na)]

\* The stack of the entries before entry k, with the previous answer.
StackWithPrevious(h, k) == calculate(h, k, "continue").ts

\* The stack of the entries before entry k, with the new answer.
StackWithNew(h, pos, na, k) == calculate(RevisedHistory(h, pos, na), k, "continue").ts

\* Entry k holds an answer to a question one text function of which takes
\* the revised question as a parameter.
TextDepends(h, pos, k) ==
  /\ h[k].type = "answer"
  /\ questions[h[k].q].type = "with_body"
  /\ \E f \in 1..Len(questions[h[k].q].text_functions) :
       \E j \in 1..Len(questions[h[k].q].text_functions[f]) :
         questions[h[k].q].text_functions[f][j] = h[pos].q

\* The text of the question of entry k differs with the new answer, on the
\* stacks of the entries before entry s.
TextDiffersOn(h, pos, na, k, s) ==
  calculate_text(questions, StackWithPrevious(h, s), h[k].q) #
    calculate_text(questions, StackWithNew(h, pos, na, s), h[k].q)

TextDiffers(h, pos, na, k) == TextDiffersOn(h, pos, na, k, k)

\* Entry k is a begin loop that iterates over the revised answer.
OperandDepends(h, pos, k) == h[k].type = "begin_loop" /\ h[k].loa = pos

\* The operand of the loop differs with the new answer.
OperandDiffers(h, pos, na) ==
  compute_loop_operand(h[pos].answer) # compute_loop_operand(na)

\* Entry k is removed because of what the new answer makes of it.
TrulyImpacted(h, pos, na, k) ==
  \/ TextDepends(h, pos, k) /\ TextDiffers(h, pos, na, k)
  \/ OperandDepends(h, pos, k) /\ OperandDiffers(h, pos, na)

\* With the new answer the transitions of the question of entry k - 1 lead
\* to the question of entry k.
SameNext(h, pos, na, k) ==
  \E t \in {run_transitions(questions, StackWithNew(h, pos, na, k), h[k - 1].q)} :
    t.err = "ok" /\ t.q = h[k].q

\* The walk reaches entry k, which it finds where the new answer leads, all
\* the entries between the revised one and entry k kept.
Reaches(h, pos, na, k) ==
  /\ k \in (pos + 1)..Len(h)
  /\ \A j \in (pos + 1)..k : SameNext(h, pos, na, j)
  /\ \A j \in (pos + 1)..(k - 1) : ~TrulyImpacted(h, pos, na, j)

\* The walk reaches entry k after a resection: the new answer leads from the
\* revised question to the question of entry k, which is not the question
\* of the entry after the revised one, and entry k is the first entry of
\* that question after the revised one.
ReachesByResection(h, pos, na, k) ==
  /\ k \in (pos + 2)..Len(h)
  /\ \E t \in {run_transitions(questions, StackWithNew(h, pos, na, pos + 1), h[pos].q)} :
       t.err = "ok" /\ t.q = h[k].q
  /\ \A j \in (pos + 1)..(k - 1) : h[j].q # h[k].q

\* The revision made by a step, if the step is a revision that succeeds.
IsRevision == reply'.op = "revise" /\ reply'.err = "ok"

RevisedPos == reply'.index + 1

NewAnswer == make_answer(iv.history[RevisedPos].q, reply'.payload, RevisedPos)

FramesOf(ts, qbl) ==
  Cardinality({f \in 1..Len(ts.vector) : ts.vector[f].question_begin_loop = qbl})

\* The stack after the walk of a revision has kept the begin loop entry e,
\* found impacted and its operand unchanged, starting from the stack ts.
KeptBeginLoop(h, ts, pa, na, e) ==
  process_entry(h, process_impacted_entry(questions, ts, ts, pa, na, e).pts, e,
                "continue").ts

\* C29: when the walk of a revision reaches an entry that was kept and is
\* the begin loop of a loop that iterates over the revised answer, then, if
\* the operand of the loop calculated from the previous answer differs from
\* the one calculated from the new answer, the entry and the entries after it
\* are removed and the next question is the regular question the advance
\* reaches from the begin loop with the new answer (the first question of
\* the body if the new operand can be iterated over, the question after the
\* loop if not); if the two operands are equal the entry is kept, with one
\* frame of the loop on the previous stack and one on the new stack.
C29_OperandImpact ==
  [][IsRevision =>
       \A k \in 1..Len(iv.history) :
         (Reaches(iv.history, RevisedPos, NewAnswer, k)
            /\ OperandDepends(iv.history, RevisedPos, k)) =>
           IF OperandDiffers(iv.history, RevisedPos, NewAnswer)
           THEN /\ iv'.history =
                     SubSeq(RevisedHistory(iv.history, RevisedPos, NewAnswer), 1, k - 1)
                /\ iv'.next_question =
                     Reached(StackWithNew(iv.history, RevisedPos, NewAnswer, k),
                             iv.history[k].q)
           ELSE /\ Len(iv'.history) >= k
                /\ iv'.history[k] = iv.history[k]
                /\ FramesOf(KeptBeginLoop(iv.history, StackWithPrevious(iv.history, k),
                                          iv.history[RevisedPos].answer, NewAnswer,
                                          iv.history[k]), iv.history[k].q) = 1
                /\ FramesOf(KeptBeginLoop(RevisedHistory(iv.history, RevisedPos, NewAnswer),
                                          StackWithNew(iv.history, RevisedPos, NewAnswer, k),
                                          iv.history[RevisedPos].answer, NewAnswer,
                                          iv.history[k]), iv.history[k].q) = 1]_vars

\* C29 with find_next_regular_question as the reference for the question
\* reached from the begin loop.
C29_OperandImpact_AsCoded ==
  [][IsRevision =>
       \A k \in 1..Len(iv.history) :
         (Reaches(iv.history, RevisedPos, NewAnswer, k)
            /\ OperandDepends(iv.history, RevisedPos, k)) =>
           IF OperandDiffers(iv.history, RevisedPos, NewAnswer)
           THEN /\ iv'.history =
                     SubSeq(RevisedHistory(iv.history, RevisedPos, NewAnswer), 1, k - 1)
                /\ iv'.next_question =
                     find_next_regular_question(
                       questions, StackWithNew(iv.history, RevisedPos, NewAnswer, k),
                       iv.history[k].q, "continue").q
           ELSE /\ Len(iv'.history) >= k
                /\ iv'.history[k] = iv.history[k]]_vars


\* The answers of a history, in order.
Answers(h) == SelectSeq(h, LAMBDA e : e.type = "answer")

\* The kinds and the questions of the entries of a history.
Shape(h) == [k \in 1..Len(h) |-> [type |-> h[k].type, q |-> h[k].q]]

\* The interview that results from submitting the answers as from number n
\* to the interview i, each to the next question of the interview, by
\* interview::add_answer and interview::move_ahead; err tells whether every
\* answer is to the next question and every advance succeeds.
RECURSIVE Replay(_, _, _)
Replay(i, as, n) ==
  IF n > Len(as) THEN [err |-> "ok", iv |-> i]
  ELSE IF i.next_question # as[n].q THEN [err |-> "not_next_question", iv |-> i]
  ELSE \* the interview after the answer is added and the advance made
       LET out == move_ahead(questions,
                             add_answer(i, make_answer(as[n].q,
                                                       Payload(as[n].c, as[n].arr, as[n].elems),
                                                       Len(i.history) + 1)),
                             "continue")
       IN IF out.err # "ok" THEN [err |-> out.err, iv |-> out.iv]
          ELSE Replay(out.iv, as, n + 1)

\* The interview as it is once started, before any answer.
JustStarted ==
  set_next_question(questions, [iv EXCEPT !.history = <<>>, !.state = "ongoing"], 1)

Replayed ==
  Replay(JustStarted, [k \in 1..Len(Answers(iv.history)) |-> Answers(iv.history)[k].answer], 1)

\* C30: the history of a started interview is one that submits alone produce
\* from the answers it holds: the advance replayed from the first question
\* with these answers, in order, makes the entries of the history (answers,
\* begin loops and end loops, of the same questions in the same order) and
\* ends on the next question of the interview.
C30_HistoryIsReplay ==
  iv.state # "initiated" =>
    /\ Replayed.err = "ok"
    /\ Shape(Replayed.iv.history) = Shape(iv.history)
    /\ Replayed.iv.next_question = iv.next_question


(***************************************************************************)
(* The stack rebuilt from the whole history and the loop nest of the next  *)
(* question.                                                               *)
(***************************************************************************)
\* An end loop entry of h is processed on a stack without frame.
EndLoopOnEmptyStack(h) ==
  \E k \in 1..Len(h) :
    /\ h[k].type = "end_loop"
    /\ calculate(h, k, "continue").ts.vector = <<>>

\* The begin loops of the frames of ts, the outermost first.
Frames(ts) == [k \in 1..Len(ts.vector) |-> ts.vector[k].question_begin_loop]

\* C31: after a successful start, submit or revise, the calculation of the
\* stack over the whole history processes no end loop entry on an empty
\* stack, and the frames it ends with are the begin loops the next question
\* is in the body of, the outermost first.
C31_StackIsLoopNest ==
  reply.op \in {"start", "submit", "revise"} /\ reply.err = "ok" =>
    /\ ~EndLoopOnEmptyStack(reply.memory.history)
    /\ Frames(MemoryStack) = Nest(reply.memory.next_question)




(***************************************************************************)
(* The operand answers of the begin loop entries.                          *)
(***************************************************************************)
\* Entry k of h is a begin loop entry whose link designates the answer of
\* an earlier answer entry of h to the operand question of the loop.
OperandLinked(h, k) ==
  /\ h[k].loa \in 1..(k - 1)
  /\ h[h[k].loa].type = "answer"
  /\ h[h[k].loa].q = questions[h[k].q].operand_question

\* C32: in the history of the interview, every begin loop entry has a link
\* that is not null and designates the answer of an answer entry found
\* earlier in the history, which answers the operand question of the loop.
C32_OperandInHistory ==
  \A k \in 1..Len(iv.history) :
    iv.history[k].type = "begin_loop" => OperandLinked(iv.history, k)


(***************************************************************************)
(* Loops on every value the operand expression can return: an array, an    *)
(* empty array, null (nothing to index), and a value that is not an array  *)
(* but whose element 0 is defined, such as the text of an input.           *)
(***************************************************************************)
\* A loop without body question: the begin loop goes to its end loop.
Src16 ==
  <<SInput(<<>>),
    SBeginLoop(1, <<>>),
    SEndLoop(<<>>),
    SMessage(<<>>)>>

OperandValueSources == {Src4, Src16}

\* The operand is null, a text of one character, a text of two characters.
NotArrayPayloads ==
  {Payload(-1, FALSE, <<>>), Payload(-1, FALSE, <<1>>), Payload(-1, FALSE, <<1, 2>>)}

OperandPayloadsFor(body) ==
  IF body = "input" THEN PayloadsFor(body) \cup NotArrayPayloads ELSE PayloadsFor(body)

InitOperandValues ==
  /\ \E src \in OperandValueSources, ub \in Undefined :
       \E c \in {compile(src, ub)} :
         /\ c.err = "ok"
         /\ check_orphans(c.questions) = 0
         /\ questions = c.questions
  /\ campaign = make_campaign(0, 0)
  /\ now = 0
  /\ iv = make_interview
  /\ reply = [op |-> "none", err |-> "ok", index |-> 0, payload |-> NoPayload,
              trace |-> <<>>, memory |-> make_interview]
  /\ questionnaire = Published(questions).questionnaire
  /\ questionnaire_localization = Published(questions).questionnaire_localization

SubmitOperandValue ==
  /\ Len(iv.history) < MaxHistory
  /\ \E p \in OperandPayloadsFor(NextBody), ub \in Undefined :
       \E out \in {answer_srv(questions, campaign, iv, now, p, ub)} :
         /\ iv' = Commit(iv, out)
         /\ reply' = Request("submit", 0, p, out)
         /\ UNCHANGED <<questions, campaign, now, questionnaire, questionnaire_localization>>

NextOperandValues == Start \/ SubmitOperandValue

SpecOperandValues == InitOperandValues /\ [][NextOperandValues]_vars

\* The step is a submit of a valid answer to the question of an interview
\* that is ongoing.
ValidSubmit ==
  /\ Submitted
  /\ iv.state = "ongoing"
  /\ reply'.payload # NoPayload
  /\ answer_compile(NextBody, reply'.payload) = "ok"

\* C33 (each submit): the advance that follows a valid answer makes
\* finitely many loop steps and returns a question that is neither a begin
\* loop nor an end loop, whatever the value of the operands of the loops.
C33_AdvanceReturns ==
  [][ValidSubmit =>
       /\ reply'.err = "ok"
       /\ iv'.next_question \in 1..Len(questions)
       /\ questions[iv'.next_question].type \notin {"begin_loop", "end_loop"}]_vars

\* C33 restricted to the operands that are arrays.
C33_AdvanceReturns_Arrays ==
  [][ValidSubmit /\ (\A k \in 1..Len(iv.history) : iv.history[k].answer.arr
                                                   \/ iv.history[k].type # "answer"
                                                   \/ questions[iv.history[k].q].body # "input")
                 /\ (reply'.payload.arr \/ NextBody # "input") =>
       /\ reply'.err = "ok"
       /\ iv'.next_question \in 1..Len(questions)
       /\ questions[iv'.next_question].type \notin {"begin_loop", "end_loop"}]_vars


\* The respondent starts the interview and keeps submitting answers that
\* the service accepts.
AcceptedStart == Start /\ reply'.err = "ok"

AcceptedSubmit == SubmitOperandValue /\ reply'.err = "ok"

SpecOperandValuesFair ==
  SpecOperandValues /\ WF_vars(AcceptedStart) /\ WF_vars(AcceptedSubmit)

\* An input of the history was answered with a value that is not an array.
NotArrayOperand ==
  \E k \in 1..Len(iv.history) :
    /\ iv.history[k].type = "answer"
    /\ questions[iv.history[k].q].body = "input"
    /\ ~iv.history[k].answer.arr

\* C33 (the interview): with a respondent who keeps submitting valid
\* answers the interview is eventually completed.
C33_Completes == <>(iv.state = "completed")

\* C33 (the interview) when the operands of the loops are arrays.
C33_Completes_Arrays == <>(iv.state = "completed" \/ NotArrayOperand)


(***************************************************************************)
(* Parametric texts.  A text is the sequence of its characters; the        *)
(* functions of a text are given by what each returns, a string or another *)
(* value; the loop variables are the names of the variables of the frames  *)
(* of the stack, the outermost first.  The calculated text is a sequence   *)
(* of items: a character copied, the value of a function or the value of   *)
(* a loop variable, written with or without the quotes of a string.        *)
(***************************************************************************)
eval_prefix == "@"

eval_open == "{"

eval_close == "}"

Digits == <<"0", "1", "2", "3", "4", "5", "6", "7", "8", "9">>

isdigit(c) == \E d \in 1..10 : Digits[d] = c

\* c - '0'
DigitValue(c) == (CHOOSE d \in 1..10 : Digits[d] = c) - 1



\* The do-while loop of validate_parametric_text and calculate_text that
\* accumulates the function number: i is the position after the first
\* digit, funcn the value of the first digit.  It stops at the end of the
\* text or on the first character that is not a digit.
RECURSIVE read_function_number(_, _, _)
read_function_number(text, i, funcn) ==
  IF i > Len(text) \/ ~isdigit(text[i]) THEN [pos |-> i, funcn |-> funcn]
  ELSE read_function_number(text, i + 1, funcn + (funcn * 10 + DigitValue(text[i])))

\* validate_parametric_text, from position i; fn is the number of functions.
RECURSIVE validate_from(_, _, _)
validate_from(text, i, fn) ==
  IF i > Len(text) THEN "ok"
  ELSE IF text[i] # eval_prefix THEN validate_from(text, i + 1, fn)
  ELSE IF i + 1 > Len(text) THEN "ok"
  ELSE IF text[i + 1] # eval_open THEN validate_from(text, i + 2, fn)
  ELSE IF i + 2 > Len(text) THEN "ok"
  ELSE IF ~isdigit(text[i + 2]) THEN validate_from(text, i + 3, fn)
  ELSE The({ IF r.pos > Len(text) THEN "ok"
             ELSE IF text[r.pos] = eval_close /\ r.funcn >= fn
             THEN "function_call_out_of_bounds"
             ELSE validate_from(text, r.pos + 1, fn)
             : r \in {read_function_number(text, i + 3, DigitValue(text[i + 2]))} })

validate_parametric_text(text, fn) == validate_from(text, 1, fn)

\* Items of a calculated text.
Char(c) == [kind |-> "char", c |-> c, n |-> 0, quotes |-> FALSE]

Chars(s) == [k \in 1..Len(s) |-> Char(s[k])]

\* The value v of function n written by s << *str (a string without its
\* quotes) or by s << v (the canonical form, a string in its quotes).
FunctionValue(n, v, trimmed) ==
  [kind |-> "function", c |-> "", n |-> n, quotes |-> (v = "string" /\ ~trimmed)]

VariableValue(n) == [kind |-> "variable", c |-> "", n |-> n, quotes |-> FALSE]

\* the_stack::get_loop_variable: the innermost frame whose variable has the
\* name, 0 when there is none.
get_loop_variable(variables, name) ==
  IF \E k \in 1..Len(variables) : variables[k] = name
  THEN CHOOSE k \in 1..Len(variables) :
         variables[k] = name /\ \A j \in (k + 1)..Len(variables) : variables[j] # name
  ELSE 0

\* The position of the first eval_close from i on, Len(text) + 1 if none.
RECURSIVE find_close(_, _)
find_close(text, i) ==
  IF i > Len(text) \/ text[i] = eval_close THEN i ELSE find_close(text, i + 1)

Rendered(err, s, values, calls) ==
  [err |-> err, output |-> s, values |-> values, calls |-> calls]

\* The while loop of question_body::calculate_text, from position i: s is
\* the stream, values the functions whose value is recorded, calls the
\* functions called, in the order of the calls.
RECURSIVE calculate_text_from(_, _, _, _, _, _, _)
calculate_text_from(text, functions, variables, i, s, values, calls) ==
  IF i > Len(text) THEN Rendered("ok", s, values, calls)
  ELSE IF text[i] # eval_prefix
  THEN calculate_text_from(text, functions, variables, i + 1,
                           Append(s, Char(text[i])), values, calls)
  ELSE IF i + 1 > Len(text)
  THEN Rendered("ok", Append(s, Char(eval_prefix)), values, calls)
  ELSE IF text[i + 1] # eval_open
  THEN calculate_text_from(text, functions, variables, i + 2,
                           Append(s, Char(text[i + 1])), values, calls)
  ELSE IF i + 2 > Len(text)
  THEN Rendered("ok", Append(s, Char(eval_open)), values, calls)
  ELSE IF isdigit(text[i + 2])
  THEN The({
         IF r.pos > Len(text) \/ text[r.pos] # eval_close
         THEN Rendered("ok", s \o Chars(SubSeq(text, i, r.pos - 1)), values, calls)
         ELSE IF r.funcn >= Len(functions)
         THEN Rendered("function_call_out_of_bounds", s, values, calls)
         ELSE IF r.funcn \in values
         THEN calculate_text_from(
                text, functions, variables, r.pos + 1,
                Append(s, FunctionValue(r.funcn, functions[r.funcn + 1], FALSE)),
                values, calls)
         ELSE calculate_text_from(
                text, functions, variables, r.pos + 1,
                Append(s, FunctionValue(r.funcn, functions[r.funcn + 1], TRUE)),
                values \cup {r.funcn}, Append(calls, r.funcn))
         : r \in {read_function_number(text, i + 3, DigitValue(text[i + 2]))} })
  ELSE The({
         IF j > Len(text)
         THEN Rendered("ok", s \o Chars(SubSeq(text, i, Len(text))), values, calls)
         ELSE The({
           IF v = 0 THEN Rendered("question_loop_variable_unknown", s, values, calls)
           ELSE calculate_text_from(text, functions, variables, j + 1,
                                    Append(s, VariableValue(v)), values, calls)
           : v \in {get_loop_variable(variables, SubSeq(text, i + 2, j - 1))} })
         : j \in {find_close(text, i + 3)} })

\* question_body::calculate_text on the text, the functions of the body
\* and the stack.
calculate_text_of(text, functions, variables) ==
  IF functions = <<>> /\ variables = <<>>
  THEN Rendered("ok", Chars(text), {}, <<>>)
  ELSE calculate_text_from(text, functions, variables, 1, <<>>, {}, <<>>)


\* Number of pieces of a text, number of functions of a text.
MaxPieces == 3

MaxFunctions == 12

\* The texts are made of at most MaxPieces pieces: a character, the opening
\* of an escape, the call of function 0, the call of function 10.
TextPieces ==
  {<<"a">>, <<"@">>, <<"{">>, <<"}">>, <<"0">>, <<"1">>, <<"@", "{">>,
   <<"@", "{", "0", "}">>, <<"@", "{", "1", "0", "}">>}

RECURSIVE TextsOf(_)
TextsOf(n) ==
  IF n = 0 THEN {<<>>}
  ELSE TextsOf(n - 1) \cup {t \o p : t \in TextsOf(n - 1), p \in TextPieces}

Texts == TextsOf(MaxPieces)

\* The functions of even index return a string, the others a number.
FunctionsOf(n) == [k \in 1..n |-> IF k % 2 = 1 THEN "string" ELSE "number"]

FunctionLists == {FunctionsOf(n) : n \in {0, 1, 2, MaxFunctions - 1, MaxFunctions}}

\* No frame, or the frame of a loop whose variable is named a.
VariableLists == {<<>>, <<(<<"a">>)>>}

InitText ==
  /\ questions = <<>>
  /\ campaign = make_campaign(0, 0)
  /\ now = 0
  /\ iv = make_interview
  /\ questionnaire = make_questionnaire
  /\ questionnaire_localization = make_questionnaire_localization
  /\ \E text \in Texts, functions \in FunctionLists, variables \in VariableLists :
       reply = [op |-> "none", err |-> "ok", text |-> text, functions |-> functions,
                variables |-> variables, output |-> <<>>, calls |-> <<>>]

\* source_text::compile validates the text against its functions.
ValidateText ==
  /\ reply' = [reply EXCEPT
                 !.op = "validate",
                 !.err = validate_parametric_text(reply.text, Len(reply.functions)),
                 !.output = <<>>,
                 !.calls = <<>>]
  /\ UNCHANGED <<questions, campaign, now, iv, questionnaire, questionnaire_localization>>

\* The text is calculated for a localized question.
CalculateText ==
  /\ \E r \in {calculate_text_of(reply.text, reply.functions, reply.variables)} :
       reply' = [reply EXCEPT !.op = "render", !.err = r.err, !.output = r.output,
                              !.calls = r.calls]
  /\ UNCHANGED <<questions, campaign, now, iv, questionnaire, questionnaire_localization>>

NextText == ValidateText \/ CalculateText

SpecText == InitText /\ [][NextText]_vars


\* The number a string of digits denotes in base 10.
RECURSIVE DecimalValue(_)
DecimalValue(ds) ==
  IF ds = <<>> THEN 0 ELSE 10 * DecimalValue(Front(ds)) + DigitValue(ds[Len(ds)])

\* The text starts, after characters that are not eval_prefix, with an
\* escape of a function number: its digits are at b..(e - 1), eval_close at e.
FirstEscape ==
  LET t == reply.text
      HasPrefix == \E p \in 1..Len(t) : t[p] = eval_prefix
      p == CHOOSE x \in 1..Len(t) : t[x] = eval_prefix /\ \A y \in 1..(x - 1) : t[y] # eval_prefix
      e == CHOOSE x \in (p + 2)..(Len(t) + 1) :
             /\ \A y \in (p + 2)..(x - 1) : isdigit(t[y])
             /\ (x = Len(t) + 1 \/ ~isdigit(t[x]))
  IN IF HasPrefix /\ p + 3 <= Len(t) /\ t[p + 1] = eval_open /\ isdigit(t[p + 2])
        /\ e <= Len(t) /\ t[e] = eval_close
     THEN [b |-> p + 2, e |-> e] ELSE [b |-> 0, e |-> 0]

FirstNumber == DecimalValue(SubSeq(reply.text, FirstEscape.b, FirstEscape.e - 1))

\* C34: when the first escape of a text is @{N}, N a string of digits, the
\* validation of the text fails with function_call_out_of_bounds if N in
\* base 10 is not less than the number of functions and does not fail on
\* this escape if it is less; the calculation of the text, for a body that
\* has functions, fails the same way in the first case and calls function
\* N first in the second.
C34_FunctionNumber ==
  FirstEscape.b # 0 =>
    /\ reply.op = "validate" =>
         /\ FirstNumber >= Len(reply.functions) => reply.err = "function_call_out_of_bounds"
         /\ /\ FirstNumber < Len(reply.functions)
            /\ \A y \in (FirstEscape.e + 1)..Len(reply.text) : reply.text[y] # eval_prefix
            => reply.err = "ok"
    /\ reply.op = "render" /\ reply.functions # <<>> =>
         /\ FirstNumber >= Len(reply.functions) => reply.err = "function_call_out_of_bounds"
         /\ FirstNumber < Len(reply.functions) =>
              /\ reply.calls # <<>>
              /\ reply.calls[1] = FirstNumber

\* C34 for the numbers of one digit.
C34_FunctionNumber_OneDigit ==
  FirstEscape.e = FirstEscape.b + 1 => C34_FunctionNumber


\* Function n is called at most once.
CalledOnce(n) == Cardinality({k \in 1..Len(reply.calls) : reply.calls[k] = n}) <= 1

\* C35: in a text that was calculated, no function was called twice, and
\* every value of a function is written the same way at each of its
\* occurrences: a string without its quotes, another value in its
\* canonical form.
C35_CalledOnceSameText ==
  reply.op = "render" /\ reply.err = "ok" =>
    /\ \A n \in 0..(Len(reply.functions) - 1) : CalledOnce(n)
    /\ \A k \in 1..Len(reply.output) :
         reply.output[k].kind = "function" => ~reply.output[k].quotes

\* C35 without the way the values are written: a function is called at
\* most once, and it is called if its value is in the text.
C35_CalledOnce ==
  reply.op = "render" /\ reply.err = "ok" =>
    /\ \A n \in 0..(Len(reply.functions) - 1) : CalledOnce(n)
    /\ \A k \in 1..Len(reply.output) :
         reply.output[k].kind = "function" =>
           \E j \in 1..Len(reply.calls) : reply.calls[j] = reply.output[k].n


\* No escape of the text is closed: no eval_close is found after an
\* eval_prefix directly followed by eval_open.
NoEscapeClosed ==
  \A p \in 1..(Len(reply.text) - 1) :
    reply.text[p] = eval_prefix /\ reply.text[p + 1] = eval_open =>
      \A e \in (p + 2)..Len(reply.text) : reply.text[e] # eval_close

\* C36: the calculation of a text in which no escape is closed succeeds
\* and gives the text, character for character, whatever the functions of
\* the body and the frames of the stack.
C36_Verbatim ==
  reply.op = "render" /\ NoEscapeClosed =>
    /\ reply.err = "ok"
    /\ reply.output = Chars(reply.text)

\* C36 for the bodies without function on a stack without frame, and for
\* the texts whose only stray character sequences end the text: a last
\* eval_prefix, or an escape of digits or of a name that the end of the
\* text leaves open.
C36_Verbatim_AtEnd ==
  /\ reply.op = "render"
  /\ NoEscapeClosed
  /\ \/ reply.functions = <<>> /\ reply.variables = <<>>
     \/ \A p \in 1..Len(reply.text) :
          reply.text[p] = eval_prefix =>
            \/ p = Len(reply.text)
            \/ /\ p + 2 <= Len(reply.text)
               /\ reply.text[p + 1] = eval_open
               /\ \A y \in (p + 2)..Len(reply.text) : reply.text[y] # eval_prefix
               /\ \/ \A y \in (p + 2)..Len(reply.text) : isdigit(reply.text[y])
                  \/ ~isdigit(reply.text[p + 2])
  => /\ reply.err = "ok"
     /\ reply.output = Chars(reply.text)


(***************************************************************************)
(* The downloaded source questionnaire compiled again.                     *)
(***************************************************************************)
\* C37: the source questionnaire of a successful download is accepted by
\* compile and gives the questionnaire it was downloaded from: the same
\* questions in the same order, with the same types, bodies, operand
\* questions, text functions and transitions.
C37_DownloadCompiles ==
  (reply.op = "download" /\ reply.err = "ok") =>
    \A ub \in Undefined :
      /\ compile(reply.download, ub).err = "ok"
      /\ compile(reply.download, ub).questions = questions

\* C37 for the questionnaires in which only the questions from template
\* have transitions that are not the synthesized one.
C37_DownloadCompiles_Synthesized ==
  (\A i \in 1..Len(reply.source) :
     reply.source[i].type # "from_template" => reply.source[i].transitions = <<>>)
  => C37_DownloadCompiles


(***************************************************************************)
(* Campaigns on several questionnaires.  In this specification questions   *)
(* and questionnaire are the sequences of the questionnaires of the        *)
(* database, by identifier, and campaign is the sequence of its campaigns, *)
(* each with the identifier of the questionnaire it references.            *)
(***************************************************************************)
MaxCampaigns == 2

\* The second question is an orphan.
Src17 == <<SSelect(<<STo(3)>>), SSelect(<<>>), SMessage(<<>>)>>

CampaignSources == {Src9, Src17}

\* campaign::campaign with the link to the questionnaire.
make_campaign_on(quest, s, d) ==
  [questionnaire |-> quest, start |-> make_campaign(s, d).start,
   duration |-> make_campaign(s, d).duration, end |-> make_campaign(s, d).end]

\* campaign::update
campaign_update(c, quest, s, d) ==
  [c EXCEPT !.questionnaire = quest, !.start = s, !.duration = d, !.end = s + d]

InitCampaigns ==
  /\ \E s1 \in CampaignSources, s2 \in CampaignSources, ub \in Undefined :
       \E c1 \in {compile(s1, ub)}, c2 \in {compile(s2, ub)} :
         /\ c1.err = "ok"
         /\ c2.err = "ok"
         /\ questions = <<c1.questions, c2.questions>>
  /\ questionnaire = <<make_questionnaire, make_questionnaire>>
  /\ campaign = <<>>
  /\ now = 0
  /\ iv = make_interview
  /\ reply = LibraryReply("none", "ok", 0, FALSE)
  /\ questionnaire_localization = make_questionnaire_localization

\* Service campaign_create on the questionnaire of identifier quest.
CampaignCreateOn ==
  /\ Len(campaign) < MaxCampaigns
  /\ \E quest \in 1..(Len(questionnaire) + 1), s \in 0..1, d \in 0..1 :
       IF quest > Len(questionnaire)
       THEN /\ reply' = LibraryReply("campaign_create", "questionnaire_does_not_exist",
                                     0, FALSE)
            /\ UNCHANGED <<questions, questionnaire, campaign, now, iv,
                           questionnaire_localization>>
       ELSE \E r \in {campaign_create(questionnaire[quest], questions[quest], s, d)} :
              /\ questionnaire' = [questionnaire EXCEPT ![quest] = r.questionnaire]
              /\ campaign' = IF r.err = "ok"
                             THEN Append(campaign, make_campaign_on(quest, s, d))
                             ELSE campaign
              /\ reply' = LibraryReply("campaign_create", r.err, r.label, FALSE)
              /\ UNCHANGED <<questions, now, iv, questionnaire_localization>>

\* Service campaign_update of the campaign of identifier id.
CampaignUpdate ==
  \E id \in 1..(Len(campaign) + 1), quest \in 1..(Len(questionnaire) + 1),
     s \in 0..1, d \in 0..1 :
    IF id > Len(campaign)
    THEN /\ reply' = LibraryReply("campaign_update", "campaign_does_not_exist", 0, FALSE)
         /\ UNCHANGED <<questions, questionnaire, campaign, now, iv,
                        questionnaire_localization>>
    ELSE IF quest > Len(questionnaire)
    THEN /\ reply' = LibraryReply("campaign_update", "questionnaire_does_not_exist",
                                  0, FALSE)
         /\ UNCHANGED <<questions, questionnaire, campaign, now, iv,
                        questionnaire_localization>>
    ELSE /\ campaign' = [campaign EXCEPT ![id] = campaign_update(campaign[id], quest, s, d)]
         /\ reply' = LibraryReply("campaign_update", "ok", 0, FALSE)
         /\ UNCHANGED <<questions, questionnaire, now, iv, questionnaire_localization>>

NextCampaigns == CampaignCreateOn \/ CampaignUpdate

SpecCampaigns == InitCampaigns /\ [][NextCampaigns]_vars

\* C38: the questionnaire that a campaign references is locked and none of
\* its questions is an orphan.
C38_CampaignQuestionnaireLocked ==
  \A id \in 1..Len(campaign) :
    /\ questionnaire[campaign[id].questionnaire].locked
    /\ check_orphans(questions[campaign[id].questionnaire]) = 0

\* C38 for the campaign that a campaign creation has just made.
C38_CreatedCampaign ==
  reply.op = "campaign_create" /\ reply.err = "ok" =>
    /\ campaign # <<>>
    /\ questionnaire[campaign[Len(campaign)].questionnaire].locked
    /\ check_orphans(questions[campaign[Len(campaign)].questionnaire]) = 0


(***************************************************************************)
(* Questions without source transitions.                                   *)
(***************************************************************************)
\* Question i of the uploaded source has no transition and cannot be final.
Implicit(i) ==
  /\ reply.source[i].transitions = <<>>
  /\ ~can_be_final(make_question(reply.source[i]))

\* The uploaded source with a final message in place of its last question.
EndedByMessage == [reply.source EXCEPT ![Len(reply.source)] = SMessage(<<>>)]

\* C39, questions followed by another: in the questionnaire compiled from
\* the source, a question without source transitions that cannot be final
\* has one transition, without condition, to the next question.
C39_ImplicitToNext ==
  reply.op = "upload" /\ reply.err = "ok" =>
    \A i \in 1..(Len(reply.source) - 1) :
      Implicit(i) =>
        questions[i].transitions =
          <<[condition |-> NoExpr, parameters |-> <<>>, destination |-> i + 1]>>

\* C39: as C39_ImplicitToNext, and when the last question of the source has
\* no transition and cannot be final the compilation fails and makes no
\* questionnaire, with source_question_transition_is_missing when the
\* source has no other defect.
C39_ImplicitTransition ==
  /\ C39_ImplicitToNext
  /\ reply.op = "upload" /\ reply.source # <<>> /\ Implicit(Len(reply.source)) =>
       /\ reply.err \notin {"ok", "undefined"}
       /\ questions = <<>>
       /\ (\A ub \in Undefined : compile(EndedByMessage, ub).err = "ok") =>
            reply.err = "source_question_transition_is_missing"


\* ---------------------------------------------------------------------------
\* Template question localizations: creation and update.
\* ---------------------------------------------------------------------------

MaxTemplateLocalizations == 3

\* The template questions of the library, by document identifier; the
\* identifier AbsentTemplateQuestion names no document.
TemplateQuestions == {1, 2}

AbsentTemplateQuestion == Cardinality(TemplateQuestions) + 1

\* language::nil(), the default of a payload in which no language was given.
NilLanguage == 0

TemplateTexts == {"a", "b"}

\* template_question_localization::find: the first localization on the key
\* (template question, language), 0 when there is none.  A nil language finds
\* nothing.
template_question_localization_find(tqls, tq, lang) ==
  IF lang = NilLanguage
    \/ ~\E i \in 1..Len(tqls) :
          tqls[i].template_question = tq /\ tqls[i].language = lang
  THEN 0
  ELSE CHOOSE i \in 1..Len(tqls) :
         /\ tqls[i].template_question = tq /\ tqls[i].language = lang
         /\ \A j \in 1..(i - 1) :
              ~(tqls[j].template_question = tq /\ tqls[j].language = lang)

\* template_question_localization::update_language: a non nil language that
\* find reports on the template question is refused, whichever localization
\* bears it.
update_language(tqls, id, l) ==
  IF l # NilLanguage
  THEN IF template_question_localization_find(
            tqls, tqls[id].template_question, l) # 0
       THEN [err |-> "template_question_localization_already_exists",
             language |-> tqls[id].language]
       ELSE [err |-> "ok", language |-> l]
  ELSE [err |-> "ok", language |-> tqls[id].language]

\* source_template_question_localization::compile, on a message template.
template_question_localization_compile(tqls, tq, l, text) ==
  IF tq \notin TemplateQuestions
  THEN [err |-> "template_question_does_not_exist", tqls |-> tqls]
  ELSE IF template_question_localization_find(tqls, tq, l) # 0
  THEN [err |-> "template_question_localization_already_exists",
        tqls |-> tqls]
  ELSE [err |-> "ok",
        tqls |-> Append(tqls, [template_question |-> tq, language |-> l,
                               text |-> text])]

\* template_question_localization_update_payload::update, on a message
\* template; a throw leaves the stored document as it was.
template_question_localization_update(tqls, id, l, text) ==
  IF id \notin 1..Len(tqls)
  THEN [err |-> "template_question_localization_does_not_exist",
        tqls |-> tqls]
  ELSE IF l = NilLanguage
  THEN [err |-> "template_question_language_is_invalid", tqls |-> tqls]
  ELSE The({ IF u.err # "ok"
             THEN [err |-> u.err, tqls |-> tqls]
             ELSE [err |-> "ok",
                   tqls |-> [tqls EXCEPT ![id].language = u.language,
                                         ![id].text = text]]
             : u \in {update_language(tqls, id, l)} })

TemplateReply(op, err, id, tq, l, text) ==
  [op |-> op, err |-> err, id |-> id, template_question |-> tq,
   language |-> l, text |-> text]

InitTemplateLocalizations ==
  /\ questions = TemplateQuestions
  /\ campaign = NoCampaign
  /\ now = 0
  /\ iv = make_interview
  /\ reply = TemplateReply("none", "ok", 0, 0, NilLanguage, "a")
  /\ questionnaire = 0
  /\ questionnaire_localization = <<>>

\* Service template_question_localization_create.
TemplateQuestionLocalizationCreate ==
  /\ Len(questionnaire_localization) < MaxTemplateLocalizations
  /\ \E tq \in TemplateQuestions \cup {AbsentTemplateQuestion},
        l \in Languages \cup {NilLanguage}, text \in TemplateTexts :
       \E r \in {template_question_localization_compile(
                   questionnaire_localization, tq, l, text)} :
         /\ questionnaire_localization' = r.tqls
         /\ reply' = TemplateReply("create", r.err,
                                   IF r.err = "ok" THEN Len(r.tqls) ELSE 0,
                                   tq, l, text)
         /\ UNCHANGED <<questions, campaign, now, iv, questionnaire>>

\* Service template_question_localization_update.
TemplateQuestionLocalizationUpdate ==
  \E id \in 1..MaxTemplateLocalizations,
     l \in Languages \cup {NilLanguage}, text \in TemplateTexts :
    \E r \in {template_question_localization_update(
                questionnaire_localization, id, l, text)} :
      /\ questionnaire_localization' = r.tqls
      /\ reply' = TemplateReply("update", r.err, id, 0, l, text)
      /\ UNCHANGED <<questions, campaign, now, iv, questionnaire>>

NextTemplateLocalizations ==
  \/ TemplateQuestionLocalizationCreate
  \/ TemplateQuestionLocalizationUpdate

SpecTemplateLocalizations ==
  InitTemplateLocalizations /\ [][NextTemplateLocalizations]_vars

\* At most one localization bears a given template question and language.
OneLocalizationPerLanguage(tqls) ==
  \A i, j \in 1..Len(tqls) :
    /\ tqls[i].template_question = tqls[j].template_question
    /\ tqls[i].language = tqls[j].language
    /\ tqls[i].language # NilLanguage
    => i = j

\* The creation asks for a pair that a stored localization bears.
CreatesExistingPair ==
  /\ reply'.op = "create"
  /\ reply'.language # NilLanguage
  /\ \E i \in 1..Len(questionnaire_localization) :
       /\ questionnaire_localization[i].template_question =
            reply'.template_question
       /\ questionnaire_localization[i].language = reply'.language

\* The update moves a localization to a language another localization of
\* the same template question bears.
UpdatesToUsedLanguage ==
  /\ reply'.op = "update"
  /\ reply'.id \in 1..Len(questionnaire_localization)
  /\ reply'.language # NilLanguage
  /\ \E j \in 1..Len(questionnaire_localization) :
       /\ j # reply'.id
       /\ questionnaire_localization[j].template_question =
            questionnaire_localization[reply'.id].template_question
       /\ questionnaire_localization[j].language = reply'.language

\* The update keeps the language the localization has.
UpdatesOwnLanguage ==
  /\ reply'.op = "update"
  /\ reply'.id \in 1..Len(questionnaire_localization)
  /\ reply'.language # NilLanguage
  /\ questionnaire_localization[reply'.id].language = reply'.language

\* C40: after any sequence of template question localization creations and
\* updates there is at most one localization per template question and
\* language; a creation for an existing pair fails with "already exists", an
\* update that moves a localization to a language another localization of the
\* same template question uses fails with "already exists", and an update
\* that keeps the localization's own language succeeds and modifies that
\* localization.
C40_OneLocalizationPerLanguage ==
  [][/\ OneLocalizationPerLanguage(questionnaire_localization')
     /\ CreatesExistingPair =>
          reply'.err = "template_question_localization_already_exists"
     /\ UpdatesToUsedLanguage =>
          reply'.err = "template_question_localization_already_exists"
     /\ UpdatesOwnLanguage =>
          /\ reply'.err = "ok"
          /\ questionnaire_localization'[reply'.id].language =
               reply'.language
          /\ questionnaire_localization'[reply'.id].text = reply'.text]_vars

\* The claim's first three clauses: uniqueness, and the two refusals.
C40_OneLocalizationPerLanguage_Refusals ==
  [][/\ OneLocalizationPerLanguage(questionnaire_localization')
     /\ CreatesExistingPair =>
          reply'.err = "template_question_localization_already_exists"
     /\ UpdatesToUsedLanguage =>
          reply'.err = "template_question_localization_already_exists"]_vars

\* What the code does on an update that keeps the localization's language:
\* it is refused and the localization stays as it was.
C40_OwnLanguageRefused ==
  [][UpdatesOwnLanguage =>
       /\ reply'.err = "template_question_localization_already_exists"
       /\ questionnaire_localization' = questionnaire_localization]_vars

\* An accepted update changes the language of the localization.
C40_AcceptedUpdateMoves ==
  [][reply'.op = "update" /\ reply'.err = "ok" =>
       questionnaire_localization'[reply'.id].language #
         questionnaire_localization[reply'.id].language]_vars

====
